---- MODULE Spec2Model ----
(***************************************************************************)
(* A model of the SolarmanV5 client (src/src/solarmanv5.ts): the Modbus    *)
(* RTU codec, the V5 envelope codec and the session state machine that     *)
(* owns the socket, the sequence counter and the deferred promise of the   *)
(* request in flight.  Buffers are sequences of bytes (1-based here,       *)
(* 0-based in the source: byte k of the source is element k + 1).          *)
(***************************************************************************)
EXTENDS Integers, Sequences, FiniteSets, TLC

\* ------------------------------------------------------------------------
\* Bounds of the model
\* ------------------------------------------------------------------------

\* sendReceive calls the caller issues in one behaviour
MaxCalls == 2
\* sendReceive calls a caller that awaits each call issues in one behaviour
MaxSeqCalls == 4
\* socket objects created in one behaviour (connect and reconnect)
MaxSockets == 2
\* length of the byte sequences given to the codec functions as PDUs
MaxPduLen == 4
\* number of coils given to writeMultipleCoils
MaxCoils == 9
\* number of registers given to writeMultipleRegisters and to formatResponse
MaxRegs == 2
\* number of bytes after the function code in a response handed to parseResponseAdu
MaxBody == 4

\* ------------------------------------------------------------------------
\* Program constants
\* ------------------------------------------------------------------------

V5_START == 165
V5_END == 21
REQUEST == 69
HANDSHAKE == 65
DATA == 66
INFO == 67
HEARTBEAT == 71
REPORT == 72
CONTROL_CODE_VALUES == {HANDSHAKE, DATA, INFO, REQUEST, HEARTBEAT, REPORT}
\* the serial of the README example and the default unit id
Serial == 1234567890
MbSlaveId == 1

\* ------------------------------------------------------------------------
\* Bytes
\* ------------------------------------------------------------------------

RECURSIVE Xor(_, _)
\* JavaScript's ^ on non-negative integers
Xor(a, b) ==
    IF a = 0 THEN b
    ELSE IF b = 0 THEN a
    ELSE ((a + b) % 2) + 2 * Xor(a \div 2, b \div 2)

\* Buffer.writeUInt16LE / writeUInt16BE / writeUInt32LE
U16LE(n) == << n % 256, (n \div 256) % 256 >>
U16BE(n) == << (n \div 256) % 256, n % 256 >>
U32LE(n) == << n % 256, (n \div 256) % 256, (n \div 65536) % 256, (n \div 16777216) % 256 >>
\* Buffer.readUInt16BE(off), off 0-based
ReadU16BE(b, off) == 256 * b[off + 1] + b[off + 2]
\* Buffer.subarray(from, to), 0-based, to exclusive, clamped as Node clamps it
SubArray(b, from, to) ==
    LET t == IF to > Len(b) THEN Len(b) ELSE IF to < 0 THEN 0 ELSE to
        f == IF from > t THEN t ELSE from
    IN  [i \in 1..(t - f) |-> b[f + i]]

RECURSIVE BitAnd(_, _)
\* JavaScript's & on non-negative integers
BitAnd(a, b) ==
    IF a = 0 \/ b = 0 THEN 0
    ELSE ((a % 2) * (b % 2)) + 2 * BitAnd(a \div 2, b \div 2)

\* ------------------------------------------------------------------------
\* JavaScript numbers
\* ------------------------------------------------------------------------

\* An integer-valued number is held as <<hi, lo>>, standing for hi * 65536 + lo with
\* 0 <= lo < 65536, so that 32-bit register pairs and 2^32 fit.
Wide(hi, lo) == <<hi + (lo \div 65536), lo % 65536>>
WideOf(n) == Wide(0, n)
WAdd(a, b) == Wide(a[1] + b[1], a[2] + b[2])
WSub(a, b) == Wide(a[1] - b[1], a[2] - b[2])
WNeg(a) == Wide(-a[1], -a[2])
WScale(a, k) == Wide(a[1] * k, a[2] * k)
WNegative(a) == a[1] < 0
WLess(a, b) == a[1] < b[1] \/ (a[1] = b[1] /\ a[2] < b[2])
\* the quotient a / d cut towards zero, d > 0
WTruncDiv(a, d) ==
    LET m == IF WNegative(a) THEN WNeg(a) ELSE a
        q == Wide(m[1] \div d, ((m[1] % d) * 65536 + m[2]) \div d)
    IN  IF WNegative(a) THEN WNeg(q) ELSE q

\* ToInt32: the low 32 bits read as a signed integer
ToInt32(a) ==
    LET h == a[1] % 65536
    IN  (IF h >= 32768 THEN h - 65536 ELSE h) * 65536 + a[2]
\* 1 << k: the shift count is taken modulo 32 and the result is a signed 32-bit integer
ShiftLeftOne(k) == IF k % 32 = 31 THEN -2147483647 - 1 ELSE 2 ^ (k % 32)
\* (val & (1 << k)) !== 0
TestBit(a, k) ==
    LET s == k % 32
    IN  IF s < 16 THEN (a[2] \div (2 ^ s)) % 2 = 1
        ELSE ((a[1] % 65536) \div (2 ^ (s - 16))) % 2 = 1
\* x & y on signed 32-bit integers
And32(x, y) ==
    LET a == WideOf(x)
        b == WideOf(y)
    IN  ToInt32(<<BitAnd(a[1] % 65536, b[1] % 65536), BitAnd(a[2], b[2])>>)
\* x >> k on a signed 32-bit integer: the shift count is taken modulo 32
Shr32(x, k) ==
    IF k % 32 = 31 THEN (IF x < 0 THEN -1 ELSE 0) ELSE x \div (2 ^ (k % 32))

\* ------------------------------------------------------------------------
\* Modbus RTU codec
\* ------------------------------------------------------------------------

RECURSIVE CrcTableEntry(_, _)
\* the inner loop that fills CRC_TABLE[i]: j shifts of the reflected 0xA001
CrcTableEntry(crc, j) ==
    IF j = 0 THEN crc
    ELSE CrcTableEntry(IF crc % 2 = 1 THEN Xor(crc \div 2, 40961) ELSE crc \div 2, j - 1)

CRC_TABLE == [i \in 0..255 |-> CrcTableEntry(i, 8)]

RECURSIVE Crc16From(_, _, _)
Crc16From(crc, data, i) ==
    IF i > Len(data) THEN crc
    ELSE Crc16From(Xor(crc \div 256, CRC_TABLE[Xor(crc, data[i]) % 256]), data, i + 1)

\* a crc16 seeded with 0
crc16_SeedZero(data) == Crc16From(0, data, 1)
crc16(data) == Crc16From(65535, data, 1)
getCrc(data) == U16LE(crc16(data))
addCrc(data) == data \o getCrc(data)
verifyCrc(frame) ==
    IF Len(frame) < 4 THEN FALSE
    ELSE LET payload  == SubArray(frame, 0, Len(frame) - 2)
             expected == SubArray(frame, Len(frame) - 2, Len(frame))
             computed == getCrc(payload)
         IN  computed[1] = expected[1] /\ computed[2] = expected[2]

\* a table of names that starts at code 0
MODBUS_EXCEPTION_NAMES_FromZero ==
    [c \in 0..5 |-> CASE c = 0 -> "IllegalFunction"
                      [] c = 1 -> "IllegalDataAddress"
                      [] c = 2 -> "IllegalDataValue"
                      [] c = 3 -> "ServerDeviceFailure"
                      [] c = 4 -> "Acknowledge"
                      [] c = 5 -> "ServerDeviceBusy"]

MODBUS_EXCEPTION_NAMES ==
    [c \in 1..6 |-> CASE c = 1 -> "IllegalFunction"
                      [] c = 2 -> "IllegalDataAddress"
                      [] c = 3 -> "IllegalDataValue"
                      [] c = 4 -> "ServerDeviceFailure"
                      [] c = 5 -> "Acknowledge"
                      [] c = 6 -> "ServerDeviceBusy"]

\* an error that names every code outside the table UnknownException, without the code
ModbusError_NoCode(code) ==
    [ok |-> FALSE, err |-> "ModbusError", code |-> code,
     msg |-> "Modbus exception: " \o (IF code \in DOMAIN MODBUS_EXCEPTION_NAMES
                                      THEN MODBUS_EXCEPTION_NAMES[code]
                                      ELSE "UnknownException")]
\* new ModbusError(exceptionCode): the error carries the code, and its message the
\* name of the code or, outside the table, the code itself
ModbusError(code) ==
    [ok |-> FALSE, err |-> "ModbusError", code |-> code,
     msg |-> "Modbus exception: " \o (IF code \in DOMAIN MODBUS_EXCEPTION_NAMES
                                      THEN MODBUS_EXCEPTION_NAMES[code]
                                      ELSE "UnknownException(" \o ToString(code) \o ")")]
\* new Error(message) and new V5FrameError(message)
PlainError(msg) == [ok |-> FALSE, err |-> "Error", code |-> 0, msg |-> msg]
V5FrameError(msg) == [ok |-> FALSE, err |-> "V5FrameError", code |-> 0, msg |-> msg]
NoSocketAvailableError(msg) ==
    [ok |-> FALSE, err |-> "NoSocketAvailableError", code |-> 0, msg |-> msg]
\* a value returned instead of thrown
Ok(v) == [ok |-> TRUE, val |-> v]

buildRequest(slaveId, functionCode, data) == addCrc(<<slaveId, functionCode>> \o data)
readHoldingRegisters(slaveId, startAddr, quantity) ==
    buildRequest(slaveId, 3, U16BE(startAddr) \o U16BE(quantity))
readCoils(slaveId, startAddr, quantity) ==
    buildRequest(slaveId, 1, U16BE(startAddr) \o U16BE(quantity))
readDiscreteInputs(slaveId, startAddr, quantity) ==
    buildRequest(slaveId, 2, U16BE(startAddr) \o U16BE(quantity))
readInputRegisters(slaveId, startAddr, quantity) ==
    buildRequest(slaveId, 4, U16BE(startAddr) \o U16BE(quantity))
writeSingleCoil(slaveId, addr, value) ==
    buildRequest(slaveId, 5, U16BE(addr) \o U16BE(value))
writeSingleRegister(slaveId, addr, value) ==
    buildRequest(slaveId, 6, U16BE(addr) \o U16BE(value))

\* Math.ceil(quantity / 8)
CeilDiv8(quantity) == (quantity + 7) \div 8

\* a coil packer that fills each byte from its most significant bit
PackedCoilByte_MsbFirst(values, k) ==
    LET bit(j) == IF 8 * k + j < Len(values) /\ values[8 * k + j + 1] # 0 THEN 2 ^ (7 - j) ELSE 0
    IN  bit(0) + bit(1) + bit(2) + bit(3) + bit(4) + bit(5) + bit(6) + bit(7)

\* byte k (from 0) of the packed coils: data[5 + floor(i / 8)] |= 1 << (i % 8) for
\* every i with values[i] truthy
PackedCoilByte(values, k) ==
    LET bit(j) == IF 8 * k + j < Len(values) /\ values[8 * k + j + 1] # 0 THEN 2 ^ j ELSE 0
    IN  bit(0) + bit(1) + bit(2) + bit(3) + bit(4) + bit(5) + bit(6) + bit(7)

writeMultipleCoils(slaveId, startAddr, values) ==
    LET quantity  == Len(values)
        byteCount == CeilDiv8(quantity)
    IN  buildRequest(slaveId, 15,
                     U16BE(startAddr) \o U16BE(quantity) \o <<byteCount % 256>>
                     \o [k \in 1..byteCount |-> PackedCoilByte(values, k - 1)])

\* a register writer whose quantity field counts bytes instead of registers
writeMultipleRegisters_QuantityInBytes(slaveId, startAddr, values) ==
    LET byteCount == Len(values) * 2
    IN  buildRequest(slaveId, 16,
                     U16BE(startAddr) \o U16BE(byteCount) \o <<byteCount % 256>>
                     \o [k \in 1..byteCount |->
                           U16BE(values[(k + 1) \div 2])[2 - (k % 2)]])

writeMultipleRegisters(slaveId, startAddr, values) ==
    LET quantity  == Len(values)
        byteCount == quantity * 2
    IN  buildRequest(slaveId, 16,
                     U16BE(startAddr) \o U16BE(quantity) \o <<byteCount % 256>>
                     \o [k \in 1..byteCount |->
                           U16BE(values[(k + 1) \div 2])[2 - (k % 2)]])

\* a register parser that reads each word low byte first
ParseRegisters_LittleEndian(response) ==
    LET byteCount == response[3]
        n == (byteCount + 1) \div 2
    IN  IF 3 + 2 * n > Len(response) THEN PlainError("RangeError")
        ELSE Ok([i \in 1..n |-> response[3 + (i - 1) * 2 + 1] + 256 * response[3 + (i - 1) * 2 + 2]])

\* values.push(response.readUInt16BE(3 + i * 2)) for i < regCount; a read past the
\* end of the buffer throws a RangeError
ParseRegisters(response) ==
    LET byteCount == response[3]
        \* i < byteCount / 2 over the integers i
        n == (byteCount + 1) \div 2
    IN  IF 3 + 2 * n > Len(response) THEN PlainError("RangeError")
        ELSE Ok([i \in 1..n |-> ReadU16BE(response, 3 + (i - 1) * 2)])

\* (response[3 + floor(i/8)] >> (i % 8)) & 1 for i < quantity; a byte past the end
\* of the buffer reads as undefined, which >> turns into 0
ParseBits(response, request) ==
    LET quantity == ReadU16BE(request, 4)
    IN  Ok([i \in 1..quantity |->
              LET idx == 3 + ((i - 1) \div 8) + 1
              IN  IF idx > Len(response) THEN 0
                  ELSE (response[idx] \div (2 ^ ((i - 1) % 8))) % 2])

\* a parseResponseAdu that verifies the CRC before it looks for an exception
parseResponseAdu_CrcFirst(response, request) ==
    IF Len(response) < 5
    THEN ModbusError(IF Len(response) > 2 THEN response[3] ELSE 0)
    ELSE IF ~verifyCrc(response)
    THEN PlainError("Modbus response CRC verification failed")
    ELSE IF response[2] = request[2] + 128
    THEN ModbusError(response[3])
    ELSE ParseRegisters(response)

parseResponseAdu(response, request) ==
    IF Len(response) < 5
    THEN ModbusError(IF Len(response) > 2 THEN response[3] ELSE 0)
    ELSE IF response[2] = request[2] + 128
    THEN ModbusError(response[3])
    ELSE IF ~verifyCrc(response)
    THEN PlainError("Modbus response CRC verification failed")
    ELSE CASE response[2] \in {1, 2}   -> ParseBits(response, request)
           [] response[2] \in {3, 4}   -> ParseRegisters(response)
           [] response[2] \in {5, 6}   -> IF Len(response) < 6 THEN PlainError("RangeError")
                                          ELSE Ok(<<ReadU16BE(response, 4)>>)
           [] response[2] \in {15, 16} -> IF Len(response) < 6 THEN PlainError("RangeError")
                                          ELSE Ok(<<ReadU16BE(response, 4)>>)
           [] OTHER -> PlainError("Unsupported Modbus function code")

\* ------------------------------------------------------------------------
\* V5 envelope codec
\* ------------------------------------------------------------------------

\* frame[k] of the source (0-based); a read past the end is undefined, shown as -1
At(b, k) == IF k >= 0 /\ k < Len(b) THEN b[k + 1] ELSE -1

\* this.v5Serial: the serial as 4 little-endian bytes
v5Serial == U32LE(Serial)
v5FrameType == <<2>>
v5SensorType == <<0, 0>>
v5DeliveryTime == <<0, 0, 0, 0>>
v5PowerOnTime == <<0, 0, 0, 0>>
v5OffsetTime == <<0, 0, 0, 0>>

getResponseCode(code) == code - 48

RECURSIVE ChecksumFrom(_, _, _)
ChecksumFrom(sum, data, i) ==
    IF i > Len(data) THEN sum
    ELSE ChecksumFrom((sum + (data[i] % 256)) % 256, data, i + 1)

calculateChecksum(data) == ChecksumFrom(0, data, 1)
calculateV5FrameChecksum(frame) == calculateChecksum(SubArray(frame, 1, Len(frame) - 2))

\* seq is the 2-byte buffer copied to offset 5
v5Header(length, control, seq) ==
    <<V5_START>> \o U16LE(length) \o <<16, control % 256>> \o SubArray(seq, 0, 2) \o v5Serial
\* a trailer whose checksum takes in the start marker
v5Trailer_WithStart(data) == <<calculateChecksum(data), V5_END>>
v5Trailer(data) == <<calculateChecksum(SubArray(data, 1, Len(data))), V5_END>>

\* an encoder that leaves out the delivery time
v5FrameEncoder_NoDeliveryTime(modbusFrame, seqNum) ==
    LET length  == 15 + Len(modbusFrame)
        header  == v5Header(length, REQUEST, U16LE(seqNum))
        payload == v5FrameType \o v5SensorType \o v5PowerOnTime
                   \o v5OffsetTime \o modbusFrame
        frame   == header \o payload
    IN  frame \o v5Trailer(frame)

\* the frame built around modbusFrame for the sequence number seqNum that
\* getNextSequenceNumber has just returned
v5FrameEncoder(modbusFrame, seqNum) ==
    LET length  == 15 + Len(modbusFrame)
        header  == v5Header(length, REQUEST, U16LE(seqNum))
        payload == v5FrameType \o v5SensorType \o v5DeliveryTime \o v5PowerOnTime
                   \o v5OffsetTime \o modbusFrame
        frame   == header \o payload
    IN  frame \o v5Trailer(frame)

\* the local effectiveLen of v5FrameDecoder: the frame's length, or 13 + the
\* declared length when they differ and error correction is on; the decoder
\* assigns it and never reads it
effectiveLen(v5Frame, v5ErrorCorrection) ==
    LET frameLen   == Len(v5Frame)
        payloadLen == v5Frame[2] + 256 * v5Frame[3]
    IN  IF frameLen # 13 + payloadLen /\ v5ErrorCorrection THEN 13 + payloadLen ELSE frameLen

\* a decoder that takes the PDU from offset 26, where the encoder puts it
v5FrameDecoder_From26(v5Frame, seqNow) ==
    IF Len(v5Frame) < 3 THEN PlainError("RangeError")
    ELSE IF At(v5Frame, 0) # V5_START \/ At(v5Frame, Len(v5Frame) - 1) # V5_END
    THEN V5FrameError("V5 frame contains invalid start or end values")
    ELSE IF At(v5Frame, Len(v5Frame) - 2) # calculateV5FrameChecksum(v5Frame)
    THEN V5FrameError("V5 frame contains invalid V5 checksum")
    ELSE IF <<At(v5Frame, 5)>> # seqNow
    THEN V5FrameError("V5 frame contains invalid sequence number")
    ELSE IF \E k \in 0..3 : At(v5Frame, 7 + k) # v5Serial[k + 1]
    THEN V5FrameError("V5 frame contains incorrect data logger serial number")
    ELSE IF At(v5Frame, 4) # getResponseCode(REQUEST)
    THEN V5FrameError("V5 frame contains incorrect control code")
    ELSE IF At(v5Frame, 11) # 2
    THEN V5FrameError("V5 frame contains invalid frametype")
    ELSE LET modbusFrame == SubArray(v5Frame, 26, Len(v5Frame) - 2)
         IN  IF Len(modbusFrame) < 5
             THEN V5FrameError("V5 frame does not contain a valid Modbus RTU frame")
             ELSE Ok(modbusFrame)

\* a decoder that looks at the serial and the control code before the checksum
v5FrameDecoder_SerialFirst(v5Frame, seqNow) ==
    IF Len(v5Frame) < 3 THEN PlainError("RangeError")
    ELSE IF At(v5Frame, 0) # V5_START \/ At(v5Frame, Len(v5Frame) - 1) # V5_END
    THEN V5FrameError("V5 frame contains invalid start or end values")
    ELSE IF \E k \in 0..3 : At(v5Frame, 7 + k) # v5Serial[k + 1]
    THEN V5FrameError("V5 frame contains incorrect data logger serial number")
    ELSE IF At(v5Frame, 4) # getResponseCode(REQUEST)
    THEN V5FrameError("V5 frame contains incorrect control code")
    ELSE IF At(v5Frame, Len(v5Frame) - 2) # calculateV5FrameChecksum(v5Frame)
    THEN V5FrameError("V5 frame contains invalid V5 checksum")
    ELSE IF <<At(v5Frame, 5)>> # seqNow
    THEN V5FrameError("V5 frame contains invalid sequence number")
    ELSE IF At(v5Frame, 11) # 2
    THEN V5FrameError("V5 frame contains invalid frametype")
    ELSE LET modbusFrame == SubArray(v5Frame, 25, Len(v5Frame) - 2)
         IN  IF Len(modbusFrame) < 5
             THEN V5FrameError("V5 frame does not contain a valid Modbus RTU frame")
             ELSE Ok(modbusFrame)

\* seqNow is this.sequenceNumber: << >> for null, <<n>> for the number n
v5FrameDecoder(v5Frame, seqNow) ==
    IF Len(v5Frame) < 3 THEN PlainError("RangeError")
    ELSE IF At(v5Frame, 0) # V5_START \/ At(v5Frame, Len(v5Frame) - 1) # V5_END
    THEN V5FrameError("V5 frame contains invalid start or end values")
    ELSE IF At(v5Frame, Len(v5Frame) - 2) # calculateV5FrameChecksum(v5Frame)
    THEN V5FrameError("V5 frame contains invalid V5 checksum")
    ELSE IF <<At(v5Frame, 5)>> # seqNow
    THEN V5FrameError("V5 frame contains invalid sequence number")
    ELSE IF \E k \in 0..3 : At(v5Frame, 7 + k) # v5Serial[k + 1]
    THEN V5FrameError("V5 frame contains incorrect data logger serial number")
    ELSE IF At(v5Frame, 4) # getResponseCode(REQUEST)
    THEN V5FrameError("V5 frame contains incorrect control code")
    ELSE IF At(v5Frame, 11) # 2
    THEN V5FrameError("V5 frame contains invalid frametype")
    ELSE LET modbusFrame == SubArray(v5Frame, 25, Len(v5Frame) - 2)
         IN  IF Len(modbusFrame) < 5
             THEN IF Len(modbusFrame) > 0 /\ modbusFrame[1] \in DOMAIN MODBUS_EXCEPTION_NAMES
                  THEN V5FrameError("V5 Modbus EXCEPTION: "
                                    \o MODBUS_EXCEPTION_NAMES[modbusFrame[1]])
                  ELSE V5FrameError("V5 frame does not contain a valid Modbus RTU frame")
             ELSE Ok(modbusFrame)

\* a time response that echoes the sequence bytes as they came
v5TimeResponseFrame_EchoesSequence(frame, now) ==
    LET responseCode  == getResponseCode(frame[5])
        header        == v5Header(10, responseCode, SubArray(frame, 5, 7))
        payload       == U16LE(256) \o U32LE(now) \o U32LE(0)
        responseFrame == header \o payload
    IN  responseFrame \o v5Trailer(responseFrame)

\* now is Math.floor(Date.now() / 1000)
v5TimeResponseFrame(frame, now) ==
    LET responseCode  == getResponseCode(frame[5])
        header        == v5Header(10, responseCode, SubArray(frame, 5, 7))
        payload       == U16LE(256) \o U32LE(now) \o U32LE(0)
        built         == header \o payload
        responseFrame == [built EXCEPT ![6] = (built[6] + 1) % 256]
    IN  responseFrame \o v5Trailer(responseFrame)

\* a validation that does not look at the start marker
receivedFrameIsValid_NoStartCheck(frame, seqNow) ==
    IF <<At(frame, 5)>> # seqNow THEN FALSE
    ELSE TRUE

receivedFrameIsValid(frame, seqNow) ==
    IF At(frame, 0) # V5_START THEN FALSE
    ELSE IF <<At(frame, 5)>> # seqNow THEN FALSE
    ELSE TRUE

\* a classification that answers heartbeats only
IsProtocolFrame_OnlyHeartbeat(frame) == At(frame, 4) = HEARTBEAT

\* TRUE when the frame asks for a time response (the source's doContinue is FALSE)
IsProtocolFrame(frame) == At(frame, 4) # REQUEST /\ At(frame, 4) \in CONTROL_CODE_VALUES

\* a correction that strips two trailing zero bytes without looking at the CRC
handleDoubleCrc_NoCrcCheck(frame) ==
    IF Len(frame) < 4 THEN frame
    ELSE IF frame[Len(frame)] # 0 \/ frame[Len(frame) - 1] # 0 THEN frame
    ELSE SubArray(frame, 0, Len(frame) - 2)

handleDoubleCrc(frame) ==
    IF Len(frame) < 4 THEN frame
    ELSE IF frame[Len(frame)] # 0 \/ frame[Len(frame) - 1] # 0 THEN frame
    ELSE LET stripped        == SubArray(frame, 0, Len(frame) - 2)
             strippedPayload == SubArray(stripped, 0, Len(stripped) - 2)
             strippedCrc     == SubArray(stripped, Len(stripped) - 2, Len(stripped))
             computedCrc     == getCrc(strippedPayload)
         IN  IF computedCrc[1] = strippedCrc[1] /\ computedCrc[2] = strippedCrc[2]
             THEN stripped ELSE frame

\* what getModbusResponse makes of the envelope's PDU: the parsed values, or the
\* error thrown, after the one double-CRC retry
ParseWithCrcRetry(mbResponseFrame, mbRequestFrame) ==
    LET first == parseResponseAdu(mbResponseFrame, mbRequestFrame)
    IN  IF ~first.ok /\ first.err = "Error"
           /\ first.msg = "Modbus response CRC verification failed"
        THEN LET corrected == handleDoubleCrc(mbResponseFrame)
             IN  IF Len(corrected) # Len(mbResponseFrame)
                 THEN parseResponseAdu(corrected, mbRequestFrame)
                 ELSE first
        ELSE first

\* the part of getModbusResponse that runs once the awaited frame is there:
\* v5FrameDecoder, then parseResponseAdu
DecodeAndParse(v5ResponseFrame, seqNow, mbRequestFrame) ==
    LET dec == v5FrameDecoder(v5ResponseFrame, seqNow)
    IN  IF dec.ok THEN ParseWithCrcRetry(dec.val, mbRequestFrame) ELSE dec

\* ------------------------------------------------------------------------
\* Formatting of register values
\* ------------------------------------------------------------------------

\* val is a number held as <<hi, lo>>
twosComplement(val, numBits) ==
    IF WNegative(val) THEN WAdd(WideOf(ShiftLeftOne(numBits)), val)
    ELSE IF TestBit(val, numBits - 1) THEN WSub(val, WideOf(ShiftLeftOne(numBits)))
    ELSE val

RECURSIVE AssembleFrom(_, _, _)
\* response += modbusValues[i] * Math.pow(2, j * 16) with j = numRegisters - 1 - i
AssembleFrom(response, modbusValues, i) ==
    IF i >= Len(modbusValues) THEN response
    ELSE LET j == Len(modbusValues) - 1 - i
             term == IF j = 0 THEN Wide(0, modbusValues[i + 1])
                     ELSE Wide(modbusValues[i + 1] * (65536 ^ (j - 1)), 0)
         IN  AssembleFrom(WAdd(response, term), modbusValues, i + 1)

\* The options: scale is the fraction num/den (1/1 when left out), bitmask and
\* bitshift are << >> when undefined and <<n>> when given.  The result is the
\* fraction num/den with num held as <<hi, lo>>; products are kept exact.
NoOptions == [scale |-> [num |-> 1, den |-> 1], signed |-> FALSE, bitmask |-> << >>, bitshift |-> << >>]

formatResponse(modbusValues, options) ==
    LET numRegisters == Len(modbusValues)
        assembled == AssembleFrom(WideOf(0), modbusValues, 0)
        afterSign == IF options.signed THEN twosComplement(assembled, numRegisters * 16)
                     ELSE assembled
        afterScale == IF options.scale # [num |-> 1, den |-> 1]
                      THEN [num |-> WScale(afterSign, options.scale.num), den |-> options.scale.den]
                      ELSE [num |-> afterSign, den |-> 1]
        afterMask == IF options.bitmask # << >>
                     THEN [num |-> WideOf(And32(ToInt32(WTruncDiv(afterScale.num, afterScale.den)),
                                                ToInt32(WideOf(options.bitmask[1])))),
                           den |-> 1]
                     ELSE afterScale
        afterShift == IF options.bitshift # << >>
                      THEN [num |-> WideOf(Shr32(ToInt32(WTruncDiv(afterMask.num, afterMask.den)),
                                                 options.bitshift[1])),
                            den |-> 1]
                      ELSE afterMask
    IN  afterShift

\* ------------------------------------------------------------------------
\* The data logger, as the mock server of the tests answers
\* ------------------------------------------------------------------------

\* generateModbusResponse for FC 3/4: quantity registers holding 100, 101, ...
generateModbusResponse(slaveId, functionCode, request) ==
    LET quantity == IF Len(request) >= 6 THEN ReadU16BE(request, 4) ELSE 1
    IN  addCrc(<<slaveId, functionCode, (quantity * 2) % 256>>
               \o [i \in 1..(2 * quantity) |->
                     IF i % 2 = 1 THEN ((100 + (i - 1) \div 2) \div 256) % 256
                     ELSE (100 + (i - 2) \div 2) % 256])

\* the response envelope the server builds around modbusResponse; the fields a
\* faulty logger may get wrong are parameters
ServerFrame(start, control, seqByte, serialBytes, frameType, modbusResponse, sumOff, end) ==
    LET responsePayloadLen == 14 + Len(modbusResponse)
        body == <<start>> \o U16LE(responsePayloadLen) \o <<16, control, seqByte,
                  (seqByte + 1) % 256>> \o serialBytes \o <<frameType, 1>>
                \o U32LE(1000) \o U32LE(500) \o U32LE(0) \o modbusResponse
    IN  body \o <<(calculateChecksum(SubArray(body, 1, Len(body))) + sumOff) % 256, end>>

\* ------------------------------------------------------------------------
\* Inputs
\* ------------------------------------------------------------------------

\* the request the caller sends: readHoldingRegisters(20, 4), as the tests do
Request == readHoldingRegisters(MbSlaveId, 20, 4)
Requests == {Request}
\* values Math.floor(Math.random() * 254) + 1 can take, the ends of 1..254 among them
FirstSeqs == {1, 254}
\* values Math.floor(Date.now() / 1000) can take
Times == {1700000000, 1700000001}

\* the PDUs the logger may answer Request with
GoodPdu == generateModbusResponse(MbSlaveId, Request[2], Request)
ExceptionPdu == addCrc(<<MbSlaveId, Request[2] + 128, 2>>)
BadCrcPdu == [GoodPdu EXCEPT ![Len(GoodPdu)] = (GoodPdu[Len(GoodPdu)] + 1) % 256]
ExceptionBadCrcPdu == <<MbSlaveId, Request[2] + 128, 3, 0, 0>>

Kinds == {"ok", "exception", "excbadcrc", "badcrc", "badstart", "badend", "badsum", "badserial",
          "badcontrol", "badtype", "heartbeat"}

\* the frame of each kind the logger may send with sequence byte q
InFrame(kind, q) ==
    CASE kind = "ok"         -> ServerFrame(V5_START, getResponseCode(REQUEST), q, v5Serial, 2, GoodPdu, 0, V5_END)
      [] kind = "exception"  -> ServerFrame(V5_START, getResponseCode(REQUEST), q, v5Serial, 2, ExceptionPdu, 0, V5_END)
      [] kind = "excbadcrc"  -> ServerFrame(V5_START, getResponseCode(REQUEST), q, v5Serial, 2, ExceptionBadCrcPdu, 0, V5_END)
      [] kind = "badcrc"     -> ServerFrame(V5_START, getResponseCode(REQUEST), q, v5Serial, 2, BadCrcPdu, 0, V5_END)
      [] kind = "badstart"   -> ServerFrame(0, getResponseCode(REQUEST), q, v5Serial, 2, GoodPdu, 0, V5_END)
      [] kind = "badend"     -> ServerFrame(V5_START, getResponseCode(REQUEST), q, v5Serial, 2, GoodPdu, 0, 0)
      [] kind = "badsum"     -> ServerFrame(V5_START, getResponseCode(REQUEST), q, v5Serial, 2, GoodPdu, 1, V5_END)
      [] kind = "badserial"  -> ServerFrame(V5_START, getResponseCode(REQUEST), q, U32LE(Serial + 1), 2, GoodPdu, 0, V5_END)
      [] kind = "badcontrol" -> ServerFrame(V5_START, REQUEST, q, v5Serial, 2, GoodPdu, 0, V5_END)
      [] kind = "badtype"    -> ServerFrame(V5_START, getResponseCode(REQUEST), q, v5Serial, 1, GoodPdu, 0, V5_END)
      [] kind = "heartbeat"  -> ServerFrame(V5_START, HEARTBEAT, q, v5Serial, 2, << >>, 0, V5_END)

InFrames == [q \in 0..255 |-> [kind \in Kinds |-> InFrame(kind, q)]]

\* ------------------------------------------------------------------------
\* The Session
\* ------------------------------------------------------------------------

VARIABLES
    autoReconnect,   \* the constructor option
    sequenceNumber,  \* << >> for null, <<n>> for the number n
    socket,          \* this.socket: 0 for null, else the index of a socket in sockets
    connected,
    lastFrame,
    dataResolve,     \* 0 for null, else the call whose wrapped resolve is installed
    dataReject,      \* 0 for null, else the call whose wrapped reject is installed
    dataWanted,
    sockets,         \* every net.Socket created so far
    calls,           \* the sendReceiveFrame promises not yet settled, by call number;
                     \* each has its timeout timer armed
    nCalls,          \* the calls issued so far
    settled,         \* the call the last step settled and what its caller got:
                     \* << >>, or one record
    disc,            \* the disconnect() calls made with a socket present
    written,         \* what the last step handed to socket.write: << >>, or one
                     \* record of the socket, the frame and the place of the write
    arg,             \* the arguments of a codec function called on its own, outside
                     \* a session: << >>, or a record naming the function
    ret,             \* what that call returned or threw: << >> before the call
    maskedWrite,     \* a maskedWriteHoldingRegister call in progress: << >>, or a record
                     \* of its position, the frames it has handed to
                     \* getModbusResponse and its currentValue
    device,          \* the holding register of the device a masked write works on,
                     \* where the device is followed: << >>, or a record of the
                     \* register's value and of the value the masked write replaced
    discovery        \* a discover() call: << >> before the call, or a record of its
                     \* promise, its socket, its results and seen, and of the
                     \* datagrams the socket has received

vars == <<autoReconnect, sequenceNumber, socket, connected, lastFrame, dataResolve,
          dataReject, dataWanted, sockets, calls, nCalls, settled, disc, written, arg, ret, maskedWrite,
          device, discovery>>

\* new net.Socket() on which connect() waits; by says who awaits the connect:
\* "connect" / "reconnect" the caller, "resend" / "silent" the close handler
NewSocket(by) ==
    [st |-> "connecting", lis |-> FALSE, dlis |-> 0, by |-> by, conn |-> "pending"]

\* socket.destroyed
Destroyed(socks, s) == socks[s].st \in {"destroyed", "closed"}

\* socket.destroy()
Destroy(socks, s) ==
    IF socks[s].st \in {"connecting", "open", "ended"}
    THEN [socks EXCEPT ![s].st = "destroyed"] ELSE socks

\* socket.write(frame): the bytes go out on an open socket; a write after end()
\* errors and destroys the socket
Write(socks, s, frame) ==
    IF socks[s].st = "ended" THEN [socks EXCEPT ![s].st = "destroyed"] ELSE socks
\* site is the place of the write in the source
Written(socks, s, frame, site) ==
    IF socks[s].st = "open" THEN <<[sock |-> s, frame |-> frame, site |-> site]>> ELSE << >>

\* a settled call leaves calls; its caller's outcome is shown in settled
Without(c) == [k \in DOMAIN calls \ {c} |-> calls[k]]
Outcome(c, res) == <<[id |-> c, res |-> res]>>

Init ==
    /\ autoReconnect \in BOOLEAN
    /\ sequenceNumber = << >>
    /\ socket = 0
    /\ connected = FALSE
    /\ lastFrame = << >>
    /\ dataResolve = 0
    /\ dataReject = 0
    /\ dataWanted = FALSE
    /\ sockets = << >>
    /\ calls = << >>
    /\ nCalls = 0
    /\ settled = << >>
    /\ disc = << >>
    /\ written = << >>
    /\ arg = << >>
    /\ ret = << >>
    /\ maskedWrite = << >>
    /\ device = << >>
    /\ discovery = << >>

\* the caller awaits each connect(), reconnect() and disconnect() before it calls
\* the next of them: none of its own is still waiting
CallerIdle ==
    /\ \A s \in DOMAIN sockets :
          ~(sockets[s].st = "connecting" /\ sockets[s].by \in {"connect", "reconnect"})
    /\ \A d \in DOMAIN disc : disc[d].done

\* connect(): a socket is created and the promise waits for 'connect' or 'error'
Connect ==
    /\ UNCHANGED <<arg, ret, maskedWrite, device, discovery>>
    /\ Len(sockets) < MaxSockets
    /\ ~connected
    /\ CallerIdle
    /\ sockets' = Append(sockets, NewSocket("connect"))
    /\ UNCHANGED <<autoReconnect, sequenceNumber, socket, connected, lastFrame, dataResolve,
                   dataReject, dataWanted, calls, nCalls, disc>>
    /\ settled' = << >>
    /\ written' = << >>

\* a getNextSequenceNumber that takes 0 for "not set yet"
NextSequenceNumbers_ZeroUnset ==
    IF sequenceNumber = << >> \/ sequenceNumber = <<0>> THEN {<<n>> : n \in FirstSeqs}
    ELSE {<<(sequenceNumber[1] + 1) % 256>>}

\* getNextSequenceNumber(): the values the counter may take next
NextSequenceNumbers ==
    IF sequenceNumber = << >> THEN {<<n>> : n \in FirstSeqs}
    ELSE {<<(sequenceNumber[1] + 1) % 256>>}

\* sendReceiveModbusFrame(req): v5FrameEncoder, then sendReceiveFrame up to its await
SendReceive(req) ==
    /\ UNCHANGED <<arg, ret, maskedWrite, device, discovery>>
    /\ \E sn \in NextSequenceNumbers :
         LET id    == nCalls + 1
             frame == v5FrameEncoder(req, sn[1])
         IN  /\ sequenceNumber' = sn
             /\ nCalls' = id
             /\ IF socket = 0 \/ Destroyed(sockets, socket)
                THEN /\ settled' = Outcome(id, NoSocketAvailableError("Connection already closed."))
                     /\ written' = << >>
                     /\ UNCHANGED <<lastFrame, dataWanted, dataResolve, dataReject, calls, sockets>>
                ELSE /\ lastFrame' = frame
                     /\ dataWanted' = TRUE
                     /\ dataResolve' = id
                     /\ dataReject' = id
                     /\ calls' = [k \in DOMAIN calls \cup {id} |->
                                    IF k = id THEN [seq |-> sn[1], req |-> req] ELSE calls[k]]
                     /\ sockets' = Write(sockets, socket, frame)
                     /\ written' = Written(sockets, socket, frame, "sendReceiveFrame")
                     /\ settled' = << >>
    /\ UNCHANGED <<autoReconnect, socket, connected, disc>>

\* a timer that rejects its call but leaves the pending state as it is
Timeout_KeepsPending(c) ==
    /\ UNCHANGED <<arg, ret, maskedWrite, device, discovery>>
    /\ c \in DOMAIN calls
    /\ settled' = Outcome(c, PlainError("Timeout waiting for response"))
    /\ calls' = Without(c)
    /\ UNCHANGED <<autoReconnect, sequenceNumber, socket, connected, lastFrame, sockets,
                   nCalls, disc, dataWanted, dataResolve, dataReject>>
    /\ written' = << >>

\* a timer that is shared with the pending slot: it fires only for the call whose
\* rejecter is installed
Timeout_OnlyInstalled(c) ==
    /\ UNCHANGED <<arg, ret, maskedWrite, device, discovery>>
    /\ c \in DOMAIN calls
    /\ dataReject = c
    /\ dataWanted' = FALSE
    /\ dataResolve' = 0
    /\ dataReject' = 0
    /\ settled' = Outcome(c, PlainError("Timeout waiting for response"))
    /\ calls' = Without(c)
    /\ UNCHANGED <<autoReconnect, sequenceNumber, socket, connected, lastFrame, sockets,
                   nCalls, disc>>
    /\ written' = << >>

\* the setTimeout callback of sendReceiveFrame for call c
Timeout(c) ==
    /\ UNCHANGED <<arg, ret, maskedWrite, device, discovery>>
    /\ c \in DOMAIN calls
    /\ dataWanted' = FALSE
    /\ dataResolve' = 0
    /\ dataReject' = 0
    /\ settled' = Outcome(c, PlainError("Timeout waiting for response"))
    /\ calls' = Without(c)
    /\ UNCHANGED <<autoReconnect, sequenceNumber, socket, connected, lastFrame, sockets,
                   nCalls, disc>>
    /\ written' = << >>

\* a 'connect' event after which the close handler does not write the last frame
ConnectOk_NoResend(s) ==
    /\ UNCHANGED <<arg, ret, maskedWrite, device, discovery>>
    /\ s \in DOMAIN sockets
    /\ sockets[s].st = "connecting"
    /\ socket' = s
    /\ connected' = TRUE
    /\ sockets' = [sockets EXCEPT ![s].st = "open", ![s].lis = TRUE,
                                   ![s].conn = "resolved", ![s].by = "none"]
    /\ written' = << >>
    /\ UNCHANGED <<autoReconnect, sequenceNumber, lastFrame, dataResolve, dataReject,
                   dataWanted, calls, nCalls, disc>>
    /\ settled' = << >>

\* the 'connect' event of socket s: onConnect, setupSocketListeners, and the
\* continuation of whoever awaited the connect
ConnectOk(s) ==
    /\ UNCHANGED <<arg, ret, maskedWrite, device, discovery>>
    /\ s \in DOMAIN sockets
    /\ sockets[s].st = "connecting"
    /\ socket' = s
    /\ connected' = TRUE
    /\ LET opened == [sockets EXCEPT ![s].st = "open", ![s].lis = TRUE,
                                      ![s].conn = "resolved", ![s].by = "none"]
       IN  IF sockets[s].by = "resend" /\ Len(lastFrame) > 0
           THEN /\ sockets' = Write(opened, s, lastFrame)
                /\ written' = Written(opened, s, lastFrame, "close handler")
           ELSE /\ sockets' = opened
                /\ written' = << >>
    /\ UNCHANGED <<autoReconnect, sequenceNumber, lastFrame, dataResolve, dataReject,
                   dataWanted, calls, nCalls, disc>>
    /\ settled' = << >>

\* an 'error' event of a connecting socket that installs the socket all the same
ConnectFail_Installs(s) ==
    /\ UNCHANGED <<arg, ret, maskedWrite, device, discovery>>
    /\ s \in DOMAIN sockets
    /\ sockets[s].st = "connecting"
    /\ sockets' = [sockets EXCEPT ![s].st = "closed", ![s].conn = "NoSocketAvailableError",
                                   ![s].by = "none"]
    /\ socket' = s
    /\ IF sockets[s].by = "resend" /\ dataReject # 0
       THEN /\ settled' = Outcome(dataReject, NoSocketAvailableError("Connection closed on read"))
            /\ calls' = Without(dataReject)
            /\ dataResolve' = 0
            /\ dataReject' = 0
       ELSE /\ UNCHANGED <<calls, dataResolve, dataReject>>
            /\ settled' = << >>
    /\ UNCHANGED <<autoReconnect, sequenceNumber, connected, lastFrame, dataWanted,
                   nCalls, disc>>
    /\ written' = << >>

\* an 'error' event of a connecting socket after which the close handler's .catch
\* only logs
ConnectFail_Swallows(s) ==
    /\ UNCHANGED <<arg, ret, maskedWrite, device, discovery>>
    /\ s \in DOMAIN sockets
    /\ sockets[s].st = "connecting"
    /\ sockets' = [sockets EXCEPT ![s].st = "closed", ![s].conn = "NoSocketAvailableError",
                                   ![s].by = "none"]
    /\ UNCHANGED <<calls, dataResolve, dataReject>>
    /\ settled' = << >>
    /\ UNCHANGED <<autoReconnect, sequenceNumber, socket, connected, lastFrame, dataWanted,
                   nCalls, disc>>
    /\ written' = << >>

\* the 'error' event of a connecting socket s: onError rejects the connect with
\* NoSocketAvailableError; the close handler's .catch rejects the pending call
ConnectFail(s) ==
    /\ UNCHANGED <<arg, ret, maskedWrite, device, discovery>>
    /\ s \in DOMAIN sockets
    /\ sockets[s].st = "connecting"
    /\ sockets' = [sockets EXCEPT ![s].st = "closed", ![s].conn = "NoSocketAvailableError",
                                   ![s].by = "none"]
    /\ IF sockets[s].by = "resend" /\ dataReject # 0
       THEN /\ settled' = Outcome(dataReject, NoSocketAvailableError("Connection closed on read"))
            /\ calls' = Without(dataReject)
            /\ dataResolve' = 0
            /\ dataReject' = 0
       ELSE /\ UNCHANGED <<calls, dataResolve, dataReject>>
            /\ settled' = << >>
    /\ UNCHANGED <<autoReconnect, sequenceNumber, socket, connected, lastFrame, dataWanted,
                   nCalls, disc>>
    /\ written' = << >>

\* the sockets after the synchronous part of reconnect() followed by connect():
\* the current socket loses its listeners and is destroyed (nothing listens for its
\* close any more, so it counts as closed), and a new socket starts connecting
Reconnected(socks, by) ==
    Append(IF socket = 0 THEN socks
           ELSE [socks EXCEPT ![socket].lis = FALSE, ![socket].dlis = 0, ![socket].st = "closed"],
           NewSocket(by))

\* a reconnect() that starts the sequence numbers afresh
Reconnect_ResetsCounter ==
    /\ UNCHANGED <<arg, ret, maskedWrite, device, discovery>>
    /\ Len(sockets) < MaxSockets
    /\ CallerIdle
    /\ sockets' = Reconnected(sockets, "reconnect")
    /\ socket' = 0
    /\ sequenceNumber' = << >>
    /\ UNCHANGED <<autoReconnect, connected, lastFrame, dataResolve,
                   dataReject, dataWanted, calls, nCalls, disc>>
    /\ settled' = << >>
    /\ written' = << >>

\* reconnect() called by the caller
Reconnect ==
    /\ UNCHANGED <<arg, ret, maskedWrite, device, discovery>>
    /\ Len(sockets) < MaxSockets
    /\ CallerIdle
    /\ sockets' = Reconnected(sockets, "reconnect")
    /\ socket' = 0
    /\ UNCHANGED <<autoReconnect, sequenceNumber, connected, lastFrame, dataResolve,
                   dataReject, dataWanted, calls, nCalls, disc>>
    /\ settled' = << >>
    /\ written' = << >>

\* the 'data' event of socket s carrying frame: receivedFrameIsValid,
\* handleProtocolFrame (which reads the clock for its time response), then
\* dataResolve and the awaiting getModbusResponse
DataEvent(s, frame) ==
    /\ UNCHANGED <<arg, ret, maskedWrite, device, discovery>>
    /\ UNCHANGED <<autoReconnect, sequenceNumber, socket, connected, lastFrame, nCalls, disc>>
    /\ s \in DOMAIN sockets
    /\ sockets[s].st = "open"
    /\ sockets[s].lis
    /\ IF ~receivedFrameIsValid(frame, sequenceNumber)
       THEN /\ written' = << >>
            /\ UNCHANGED <<sockets, dataWanted, dataResolve, dataReject, calls>>
            /\ settled' = << >>
       ELSE IF IsProtocolFrame(frame)
       THEN /\ UNCHANGED <<dataWanted, dataResolve, dataReject, calls>>
            /\ settled' = << >>
            /\ \E now \in Times :
                    IF socket # 0 /\ ~Destroyed(sockets, socket)
                    THEN /\ sockets' = Write(sockets, socket, v5TimeResponseFrame(frame, now))
                         /\ written' = Written(sockets, socket, v5TimeResponseFrame(frame, now),
                                             "handleProtocolFrame")
                    ELSE /\ sockets' = sockets
                         /\ written' = << >>
       ELSE IF dataWanted /\ dataResolve # 0
       THEN /\ dataWanted' = FALSE
            /\ dataResolve' = 0
            /\ dataReject' = 0
            /\ calls' = Without(dataResolve)
            /\ written' = << >>
            /\ UNCHANGED sockets
            /\ settled' = Outcome(dataResolve,
                                      DecodeAndParse(frame, sequenceNumber, calls[dataResolve].req))
       ELSE /\ written' = << >>
            /\ UNCHANGED <<sockets, dataWanted, dataResolve, dataReject, calls>>
            /\ settled' = << >>

\* the logger sends a frame of some kind with some sequence byte
Data(s, kind, q) == DataEvent(s, InFrames[q][kind])

\* an 'error' event that rejects the pending call and leaves it installed
SocketError_KeepsPending(s) ==
    /\ UNCHANGED <<arg, ret, maskedWrite, device, discovery>>
    /\ s \in DOMAIN sockets
    /\ sockets[s].st \in {"open", "ended"}
    /\ sockets' = Destroy(sockets, s)
    /\ IF sockets[s].lis /\ dataWanted /\ dataReject # 0
       THEN settled' = Outcome(dataReject, PlainError("socket error"))
       ELSE settled' = << >>
    /\ UNCHANGED <<autoReconnect, sequenceNumber, socket, connected, lastFrame, nCalls,
                   disc, calls, dataResolve, dataReject, dataWanted>>
    /\ written' = << >>

\* the 'error' event of a connected socket s; the socket is destroyed after it
SocketError(s) ==
    /\ UNCHANGED <<arg, ret, maskedWrite, device, discovery>>
    /\ s \in DOMAIN sockets
    /\ sockets[s].st \in {"open", "ended"}
    /\ sockets' = Destroy(sockets, s)
    /\ IF sockets[s].lis /\ dataWanted /\ dataReject # 0
       THEN /\ settled' = Outcome(dataReject, PlainError("socket error"))
            /\ calls' = Without(dataReject)
            /\ dataResolve' = 0
            /\ dataReject' = 0
            /\ dataWanted' = FALSE
       ELSE /\ UNCHANGED <<calls, dataResolve, dataReject, dataWanted>>
            /\ settled' = << >>
    /\ UNCHANGED <<autoReconnect, sequenceNumber, socket, connected, lastFrame, nCalls,
                   disc>>
    /\ written' = << >>

\* the logger closes or resets the connection of socket s
PeerClose(s) ==
    /\ UNCHANGED <<arg, ret, maskedWrite, device, discovery>>
    /\ s \in DOMAIN sockets
    /\ sockets[s].st \in {"open", "ended"}
    /\ sockets' = Destroy(sockets, s)
    /\ UNCHANGED <<autoReconnect, sequenceNumber, socket, connected, lastFrame, dataResolve,
                   dataReject, dataWanted, calls, nCalls, disc>>
    /\ settled' = << >>
    /\ written' = << >>

\* the 'timeout' event of socket s: this.socket?.destroy()
SocketTimeout(s) ==
    /\ UNCHANGED <<arg, ret, maskedWrite, device, discovery>>
    /\ s \in DOMAIN sockets
    /\ sockets[s].st = "open"
    /\ sockets[s].lis
    /\ socket # 0
    /\ sockets' = Destroy(sockets, socket)
    /\ UNCHANGED <<autoReconnect, sequenceNumber, socket, connected, lastFrame, dataResolve,
                   dataReject, dataWanted, calls, nCalls, disc>>
    /\ settled' = << >>
    /\ written' = << >>

\* the 'close' event of socket s, with the session's close handler attached
CloseHandler(s) ==
    /\ UNCHANGED <<arg, ret, maskedWrite, device, discovery>>
    /\ sockets[s].lis
    /\ connected' = FALSE
    /\ LET closed == [sockets EXCEPT ![s].st = "closed"]
       IN  IF dataWanted /\ dataReject # 0
           THEN IF autoReconnect
                THEN /\ Len(sockets) < MaxSockets
                     /\ sockets' = Reconnected(closed, "resend")
                     /\ socket' = 0
                     /\ UNCHANGED <<calls, dataResolve, dataReject>>
                     /\ settled' = << >>
                ELSE /\ settled' = Outcome(dataReject, NoSocketAvailableError("Connection closed on read"))
                     /\ calls' = Without(dataReject)
                     /\ dataResolve' = 0
                     /\ dataReject' = 0
                     /\ sockets' = closed
                     /\ UNCHANGED socket
           ELSE IF autoReconnect
           THEN /\ Len(sockets) < MaxSockets
                /\ sockets' = Reconnected(closed, "silent")
                /\ socket' = 0
                /\ UNCHANGED <<calls, dataResolve, dataReject>>
                /\ settled' = << >>
           ELSE /\ sockets' = closed
                /\ UNCHANGED <<socket, calls, dataResolve, dataReject>>
                /\ settled' = << >>
    /\ UNCHANGED <<autoReconnect, sequenceNumber, lastFrame, dataWanted, nCalls, disc>>
    /\ written' = << >>

\* the 'close' event of socket s, with onClose of disconnect() call d attached
CloseOnDisconnect(s) ==
    /\ UNCHANGED <<arg, ret, maskedWrite, device, discovery>>
    /\ ~sockets[s].lis
    /\ sockets[s].dlis # 0
    /\ socket' = 0
    /\ connected' = FALSE
    /\ disc' = [disc EXCEPT ![sockets[s].dlis].done = TRUE]
    /\ sockets' = [sockets EXCEPT ![s].st = "closed", ![s].dlis = 0]
    /\ UNCHANGED <<autoReconnect, sequenceNumber, lastFrame, dataResolve, dataReject,
                   dataWanted, calls, nCalls>>
    /\ settled' = << >>
    /\ written' = << >>

\* the 'close' event of a socket nothing listens to
CloseUnheard(s) ==
    /\ UNCHANGED <<arg, ret, maskedWrite, device, discovery>>
    /\ ~sockets[s].lis
    /\ sockets[s].dlis = 0
    /\ sockets' = [sockets EXCEPT ![s].st = "closed"]
    /\ UNCHANGED <<autoReconnect, sequenceNumber, socket, connected, lastFrame, dataResolve,
                   dataReject, dataWanted, calls, nCalls, disc>>
    /\ settled' = << >>
    /\ written' = << >>

CloseEvent(s) ==
    /\ s \in DOMAIN sockets
    /\ sockets[s].st = "destroyed"
    /\ (CloseHandler(s) \/ CloseOnDisconnect(s) \/ CloseUnheard(s))

\* a disconnect() that leaves the flag of the pending exchange up
Disconnect_KeepsWanted ==
    /\ UNCHANGED <<arg, ret, maskedWrite, device, discovery>>
    /\ CallerIdle
    /\ IF socket = 0
       THEN UNCHANGED <<sockets, disc>>
       ELSE /\ disc' = Append(disc, [done |-> FALSE, timer |-> TRUE])
            /\ sockets' = [sockets EXCEPT ![socket].lis = FALSE,
                                          ![socket].dlis = Len(disc) + 1,
                                          ![socket].st = IF @ = "open" THEN "ended" ELSE @]
    /\ UNCHANGED <<autoReconnect, sequenceNumber, socket, connected, lastFrame, dataResolve,
                   dataReject, dataWanted, calls, nCalls>>
    /\ settled' = << >>
    /\ written' = << >>

\* disconnect(), up to the point where its promise waits for 'close' or the timer
Disconnect ==
    /\ UNCHANGED <<arg, ret, maskedWrite, device, discovery>>
    /\ CallerIdle
    /\ dataWanted' = FALSE
    /\ IF socket = 0
       THEN UNCHANGED <<sockets, disc>>
       ELSE /\ disc' = Append(disc, [done |-> FALSE, timer |-> TRUE])
            /\ sockets' = [sockets EXCEPT ![socket].lis = FALSE,
                                          ![socket].dlis = Len(disc) + 1,
                                          ![socket].st = IF @ = "open" THEN "ended" ELSE @]
    /\ UNCHANGED <<autoReconnect, sequenceNumber, socket, connected, lastFrame, dataResolve,
                   dataReject, calls, nCalls>>
    /\ settled' = << >>
    /\ written' = << >>

\* the 500 ms timer of disconnect() call d
GraceTimer(d) ==
    /\ UNCHANGED <<arg, ret, maskedWrite, device, discovery>>
    /\ d \in DOMAIN disc
    /\ disc[d].timer
    /\ disc' = [disc EXCEPT ![d].timer = FALSE, ![d].done = TRUE]
    /\ IF socket # 0
       THEN /\ sockets' = Destroy(sockets, socket)
            /\ socket' = 0
            /\ connected' = FALSE
       ELSE UNCHANGED <<sockets, socket, connected>>
    /\ UNCHANGED <<autoReconnect, sequenceNumber, lastFrame, dataResolve, dataReject,
                   dataWanted, calls, nCalls>>
    /\ settled' = << >>
    /\ written' = << >>

\* the sequence bytes a frame of the logger may carry: the counter, the one before
\* it (a late answer) and the one of every call still waiting
SeqBytes ==
    (IF sequenceNumber = << >> THEN {0}
     ELSE {sequenceNumber[1], (sequenceNumber[1] + 255) % 256})
    \cup {calls[c].seq : c \in DOMAIN calls}

\* the steps of the logger, the network and the timers
Environment ==
    \/ \E c \in DOMAIN calls : Timeout(c)
    \/ \E s \in DOMAIN sockets : ConnectOk(s)
    \/ \E s \in DOMAIN sockets : ConnectFail(s)
    \/ \E s \in DOMAIN sockets, kind \in Kinds, q \in SeqBytes : Data(s, kind, q)
    \/ \E s \in DOMAIN sockets : SocketError(s)
    \/ \E s \in DOMAIN sockets : PeerClose(s)
    \/ \E s \in DOMAIN sockets : SocketTimeout(s)
    \/ \E s \in DOMAIN sockets : CloseEvent(s)
    \/ \E d \in DOMAIN disc : GraceTimer(d)

\* a caller that may call at any time
Next ==
    \/ Connect
    \/ Reconnect
    \/ Disconnect
    \/ (nCalls < MaxCalls /\ \E req \in Requests : SendReceive(req))
    \/ Environment

Spec == Init /\ [][Next]_vars

\* a caller that awaits each sendReceive before it issues the next
NextSeq ==
    \/ Connect
    \/ Reconnect
    \/ Disconnect
    \/ (nCalls < MaxSeqCalls /\ DOMAIN calls = {} /\ \E req \in Requests : SendReceive(req))
    \/ Environment

SpecSeq == Init /\ [][NextSeq]_vars

\* the frames a logger sends of its own accord, one for each control code of
\* ControlCode but REQUEST
AsyncCodes == [handshake |-> HANDSHAKE, data |-> DATA, info |-> INFO,
               heartbeat |-> HEARTBEAT, report |-> REPORT]
AsyncKinds == DOMAIN AsyncCodes
AsyncFrame(kind, q) == ServerFrame(V5_START, AsyncCodes[kind], q, v5Serial, 2, << >>, 0, V5_END)
AsyncFrames == [q \in 0..255 |-> [kind \in AsyncKinds |-> AsyncFrame(kind, q)]]
Async(s, kind, q) == DataEvent(s, AsyncFrames[q][kind])

\* the kinds of answer the logger gives next to its own frames
AnswerKinds == {"ok", "badstart"}
MaxAsyncCalls == 1

\* a session whose logger sends frames of every asynchronous class, with a caller
\* that awaits each sendReceive before it issues the next
NextAsync ==
    \/ Connect
    \/ Reconnect
    \/ Disconnect
    \/ (nCalls < MaxAsyncCalls /\ DOMAIN calls = {} /\ \E req \in Requests : SendReceive(req))
    \/ \E c \in DOMAIN calls : Timeout(c)
    \/ \E s \in DOMAIN sockets : ConnectOk(s)
    \/ \E s \in DOMAIN sockets : ConnectFail(s)
    \/ \E s \in DOMAIN sockets, kind \in AnswerKinds, q \in SeqBytes : Data(s, kind, q)
    \/ \E s \in DOMAIN sockets, kind \in AsyncKinds, q \in SeqBytes : Async(s, kind, q)
    \/ \E s \in DOMAIN sockets : SocketError(s)
    \/ \E s \in DOMAIN sockets : PeerClose(s)
    \/ \E s \in DOMAIN sockets : SocketTimeout(s)
    \/ \E s \in DOMAIN sockets : CloseEvent(s)
    \/ \E d \in DOMAIN disc : GraceTimer(d)

SpecAsync == Init /\ [][NextAsync]_vars

\* ------------------------------------------------------------------------
\* The codec functions called on their own
\* ------------------------------------------------------------------------

session == <<autoReconnect, sequenceNumber, socket, connected, lastFrame, dataResolve,
             dataReject, dataWanted, sockets, calls, nCalls, settled, disc, written>>

\* the bytes PDUs are made of, and the PDUs: every byte sequence up to MaxPduLen and
\* the frames of the session model
PduBytes == {0, 1, 3, 131, 255}
Pdus == UNION {[1..n -> PduBytes] : n \in 0..MaxPduLen}
        \cup {Request, GoodPdu, ExceptionPdu, BadCrcPdu}
SeqInputs == {0, 1, 254, 255}

\* v5FrameEncoder followed by v5FrameDecoder on the frame it made
EncodeDecodeArgs == [fn : {"encodeDecode"}, pdu : Pdus, seq : SeqInputs]
EncodeDecode ==
    /\ arg \in EncodeDecodeArgs
    /\ ret = << >>
    /\ LET frame == v5FrameEncoder(arg.pdu, arg.seq)
       IN  ret' = <<[frame |-> frame, decoded |-> v5FrameDecoder(frame, <<arg.seq>>)]>>
    /\ UNCHANGED <<session, arg, maskedWrite, device, discovery>>

\* v5FrameDecoder on the response envelope the logger builds around a PDU
\* PDUs too short for a response, starting with every byte around the exception codes
ShortPdus == {<<c>> \o rest : c \in 0..7, rest \in {<< >>, <<0, 0, 0>>}}
ReplyDecodeArgs == [fn : {"replyDecode"}, pdu : Pdus \cup ShortPdus, seq : SeqInputs]
ReplyDecode ==
    /\ arg \in ReplyDecodeArgs
    /\ ret = << >>
    /\ ret' = <<v5FrameDecoder(ServerFrame(V5_START, getResponseCode(REQUEST), arg.seq,
                                            v5Serial, 2, arg.pdu, 0, V5_END),
                                <<arg.seq>>)>>
    /\ UNCHANGED <<session, arg, maskedWrite, device, discovery>>

\* what follows the logger's response in the chunk handed to the 'data' listener,
\* and how many bytes of the response are missing at its end
Tails == {<< >>, <<0>>, <<V5_END>>, <<0, 0>>, <<V5_START, V5_END>>}
Cuts == {0, 1, 2}

\* v5FrameDecoder, with error correction on or off, on a chunk whose length is
\* not what the length field says
MismatchDecodeArgs ==
    [fn : {"mismatchDecode"}, pdu : {GoodPdu, ExceptionPdu}, seq : SeqInputs,
     tail : Tails, cut : Cuts, v5ErrorCorrection : BOOLEAN]
MismatchDecode ==
    /\ arg \in MismatchDecodeArgs
    /\ ret = << >>
    /\ LET sent  == ServerFrame(V5_START, getResponseCode(REQUEST), arg.seq, v5Serial, 2,
                                arg.pdu, 0, V5_END) \o arg.tail
           frame == SubArray(sent, 0, Len(sent) - arg.cut)
       IN  ret' = <<[frame |-> frame,
                    effectiveLen |-> effectiveLen(frame, arg.v5ErrorCorrection),
                    decoded |-> v5FrameDecoder(frame, <<arg.seq>>)]>>
    /\ UNCHANGED <<session, arg, maskedWrite, device, discovery>>

\* crc16, addCrc and verifyCrc on a byte sequence
CrcArgs == [fn : {"crc"}, data : Pdus]
Crc ==
    /\ arg \in CrcArgs
    /\ ret = << >>
    /\ ret' = <<[crc |-> crc16(arg.data), added |-> addCrc(arg.data),
                 verified |-> verifyCrc(addCrc(arg.data)), bare |-> verifyCrc(arg.data)]>>
    /\ UNCHANGED <<session, arg, maskedWrite, device, discovery>>

\* the addresses, quantities and 16-bit values handed to the request builders
Addrs == {0, 1, 256, 65535}
Quantities == {1, 10, 125}
Values16 == {0, 1, 258, 65280, 65535}
CoilLists == UNION {[1..n -> {0, 1}] : n \in 0..MaxCoils}
RegLists == UNION {[1..n -> Values16] : n \in 0..MaxRegs}

\* readCoils, readDiscreteInputs, readHoldingRegisters, readInputRegisters
ReadRequestArgs == [fn : {"readRequest"}, fc : {1, 2, 3, 4}, addr : Addrs, quantity : Quantities]
ReadRequest ==
    /\ arg \in ReadRequestArgs
    /\ ret = << >>
    /\ ret' = <<CASE arg.fc = 1 -> readCoils(MbSlaveId, arg.addr, arg.quantity)
                  [] arg.fc = 2 -> readDiscreteInputs(MbSlaveId, arg.addr, arg.quantity)
                  [] arg.fc = 3 -> readHoldingRegisters(MbSlaveId, arg.addr, arg.quantity)
                  [] arg.fc = 4 -> readInputRegisters(MbSlaveId, arg.addr, arg.quantity)>>
    /\ UNCHANGED <<session, arg, maskedWrite, device, discovery>>

\* writeSingleCoil, writeSingleRegister
WriteSingleArgs == [fn : {"writeSingle"}, fc : {5, 6}, addr : Addrs, value : Values16]
WriteSingle ==
    /\ arg \in WriteSingleArgs
    /\ ret = << >>
    /\ ret' = <<IF arg.fc = 5 THEN writeSingleCoil(MbSlaveId, arg.addr, arg.value)
                ELSE writeSingleRegister(MbSlaveId, arg.addr, arg.value)>>
    /\ UNCHANGED <<session, arg, maskedWrite, device, discovery>>

WriteMultipleCoilsArgs == [fn : {"writeMultipleCoils"}, addr : Addrs, values : CoilLists]
WriteMultipleCoils ==
    /\ arg \in WriteMultipleCoilsArgs
    /\ ret = << >>
    /\ ret' = <<writeMultipleCoils(MbSlaveId, arg.addr, arg.values)>>
    /\ UNCHANGED <<session, arg, maskedWrite, device, discovery>>

WriteMultipleRegistersArgs == [fn : {"writeMultipleRegisters"}, addr : Addrs, values : RegLists]
WriteMultipleRegisters ==
    /\ arg \in WriteMultipleRegistersArgs
    /\ ret = << >>
    /\ ret' = <<writeMultipleRegisters(MbSlaveId, arg.addr, arg.values)>>
    /\ UNCHANGED <<session, arg, maskedWrite, device, discovery>>

\* the payload bytes writeMultipleCoils packed, parsed back as the response to
\* readCoils for as many coils
CoilRoundTripArgs == [fn : {"coilRoundTrip"}, addr : Addrs, values : CoilLists]
CoilRoundTrip ==
    /\ arg \in CoilRoundTripArgs
    /\ ret = << >>
    /\ LET frame    == writeMultipleCoils(MbSlaveId, arg.addr, arg.values)
           packed   == SubArray(frame, 7, Len(frame) - 2)
           request  == readCoils(MbSlaveId, arg.addr, Len(arg.values))
           response == addCrc(<<MbSlaveId, 1, Len(packed)>> \o packed)
       IN  ret' = <<[frame |-> frame, packed |-> packed,
                    parsed |-> parseResponseAdu(response, request)]>>
    /\ UNCHANGED <<session, arg, maskedWrite, device, discovery>>

\* the 16-bit halves the numbers given to twosComplement and formatResponse are made of
Halves == {0, 1, 100, 32767, 32768, 65535}

\* SolarmanV5.twosComplement on a 16-bit and on a 32-bit value
TwosComplementArgs ==
    [fn : {"twosComplement"}, val : {<<0, lo>> : lo \in Halves}, numBits : {16}]
    \cup [fn : {"twosComplement"}, val : Halves \X Halves, numBits : {32}]
TwosComplement ==
    /\ arg \in TwosComplementArgs
    /\ ret = << >>
    /\ ret' = <<twosComplement(arg.val, arg.numBits)>>
    /\ UNCHANGED <<session, arg, maskedWrite, device, discovery>>

\* formatResponse on the one or two registers of a formatted read
RegisterCounts == {1, 2}
FormatOptions ==
    [scale : {[num |-> 1, den |-> 1], [num |-> 1, den |-> 10], [num |-> 10, den |-> 1]},
     signed : BOOLEAN,
     bitmask : {<< >>, <<255>>, <<65280>>, <<65535>>},
     bitshift : {<< >>, <<0>>, <<4>>, <<8>>}]
FormatResponseArgs ==
    [fn : {"formatResponse"},
     values : UNION {[1..n -> Halves] : n \in RegisterCounts},
     options : FormatOptions]
FormatResponse ==
    /\ arg \in FormatResponseArgs
    /\ ret = << >>
    /\ ret' = <<formatResponse(arg.values, arg.options)>>
    /\ UNCHANGED <<session, arg, maskedWrite, device, discovery>>

\* the requests and the responses handed to parseResponseAdu: one request for each
\* builder; responses with every function code the parser tells apart, two it does
\* not support and the exception code of each, with a matching CRC, with a wrong one
\* and with none
ParseRequests ==
    {readCoils(MbSlaveId, 0, 1), readCoils(MbSlaveId, 0, 9),
     readDiscreteInputs(MbSlaveId, 0, 8),
     readHoldingRegisters(MbSlaveId, 0, 2), readInputRegisters(MbSlaveId, 0, 1),
     writeSingleCoil(MbSlaveId, 0, 65280), writeSingleRegister(MbSlaveId, 100, 4660),
     writeMultipleCoils(MbSlaveId, 0, <<1, 0, 1>>),
     writeMultipleRegisters(MbSlaveId, 0, <<1, 2>>)}
FunctionCodes == {1, 2, 3, 4, 5, 6, 15, 16}
ResponseFunctionCodes == FunctionCodes \cup {7, 23} \cup {fc + 128 : fc \in FunctionCodes}
BodyBytes == {1, 2, 171}
ExceptionCodes == 0..8 \cup {255}
ResponsePayloads ==
    {<<MbSlaveId, fc>> \o body :
        fc \in ResponseFunctionCodes, body \in UNION {[1..n -> BodyBytes] : n \in 1..MaxBody}}
    \cup {<<MbSlaveId, fc + 128, c>> : fc \in FunctionCodes, c \in ExceptionCodes}
Responses ==
    {addCrc(p) : p \in ResponsePayloads}
    \cup {p \o <<255, 255>> : p \in ResponsePayloads}
    \cup ResponsePayloads

ParseResponseArgs == [fn : {"parseResponse"}, response : Responses, request : ParseRequests]
ParseResponse ==
    /\ arg \in ParseResponseArgs
    /\ ret = << >>
    /\ ret' = <<parseResponseAdu(arg.response, arg.request)>>
    /\ UNCHANGED <<session, arg, maskedWrite, device, discovery>>

\* the PDUs the decoder may hand to getModbusResponse (5 bytes or more): responses
\* as they should be and with a payload of their own, each with its CRC, with a
\* second CRC applied to that, with zero bytes after it, with a wrong CRC and with
\* none; and every sequence of 5 or 6 bytes over a few values
RetryPayloads ==
    {<<MbSlaveId, 3, 2, 0, 100>>, <<MbSlaveId, 3, 4, 0, 100, 0, 0>>, <<MbSlaveId, 1, 1, 5>>,
     <<MbSlaveId, 6, 0, 20, 0, 7>>, <<MbSlaveId, 16, 0, 0, 0, 2>>, <<MbSlaveId, 7, 1>>,
     <<MbSlaveId, 131, 2>>, <<MbSlaveId, 3, 0>>, <<MbSlaveId, 3>>, <<MbSlaveId>>}
RetryResponses ==
    {r \in UNION {{addCrc(p), addCrc(addCrc(p)), addCrc(p) \o <<0, 0>>,
                   addCrc(p) \o <<0, 0, 0, 0>>, addCrc(p) \o <<0, 1>>,
                   p \o <<0, 0>>, p \o <<255, 255>>, p \o <<255, 255, 0, 0>>, p} :
                      p \in RetryPayloads}
        \cup UNION {[1..n -> {0, 1, 3}] : n \in 5..6} : Len(r) >= 5}
RetryRequests ==
    {readHoldingRegisters(MbSlaveId, 0, 1), readCoils(MbSlaveId, 0, 3),
     writeSingleRegister(MbSlaveId, 20, 7)}

\* getModbusResponse from the decoded PDU on: parseResponseAdu and the one retry
CrcRetryArgs == [fn : {"crcRetry"}, response : RetryResponses, request : RetryRequests]
CrcRetry ==
    /\ arg \in CrcRetryArgs
    /\ ret = << >>
    /\ ret' = <<ParseWithCrcRetry(arg.response, arg.request)>>
    /\ UNCHANGED <<session, arg, maskedWrite, device, discovery>>

\* v5TimeResponseFrame on a frame the logger sent of its own accord, with the two
\* sequence bytes lo and hi, when the clock reads now
TimeResponseArgs ==
    [fn : {"timeResponse"}, kind : AsyncKinds, lo : SeqInputs, hi : {0, 7, 255}, now : Times]
TimeResponse ==
    /\ arg \in TimeResponseArgs
    /\ ret = << >>
    /\ ret' = <<v5TimeResponseFrame([AsyncFrames[arg.lo][arg.kind] EXCEPT ![7] = arg.hi],
                                    arg.now)>>
    /\ UNCHANGED <<session, arg, maskedWrite, device, discovery>>

CodecArgs ==
    ParseResponseArgs \cup TwosComplementArgs \cup FormatResponseArgs \cup
    CoilRoundTripArgs \cup EncodeDecodeArgs \cup ReplyDecodeArgs \cup CrcArgs \cup ReadRequestArgs
    \cup MismatchDecodeArgs \cup CrcRetryArgs \cup TimeResponseArgs
    \cup WriteSingleArgs \cup WriteMultipleCoilsArgs \cup WriteMultipleRegistersArgs

InitCodec ==
    /\ autoReconnect = FALSE
    /\ sequenceNumber = << >>
    /\ socket = 0
    /\ connected = FALSE
    /\ lastFrame = << >>
    /\ dataResolve = 0
    /\ dataReject = 0
    /\ dataWanted = FALSE
    /\ sockets = << >>
    /\ calls = << >>
    /\ nCalls = 0
    /\ settled = << >>
    /\ disc = << >>
    /\ written = << >>
    /\ arg \in CodecArgs
    /\ ret = << >>
    /\ maskedWrite = << >>
    /\ device = << >>
    /\ discovery = << >>

NextCodec ==
    \/ EncodeDecode
    \/ ReplyDecode
    \/ MismatchDecode
    \/ Crc
    \/ ReadRequest
    \/ WriteSingle
    \/ WriteMultipleCoils
    \/ WriteMultipleRegisters
    \/ CoilRoundTrip
    \/ TwosComplement
    \/ FormatResponse
    \/ ParseResponse
    \/ CrcRetry
    \/ TimeResponse

SpecCodec == InitCodec /\ [][NextCodec]_vars

\* ------------------------------------------------------------------------
\* maskedWriteHoldingRegister
\* ------------------------------------------------------------------------

\* JavaScript's | on non-negative integers
BitOr(a, b) == a + b - BitAnd(a, b)

\* a masked value that sets bits and clears none
MaskedValue_OrOnly(currentValue, orMask, andMask) == BitOr(currentValue, orMask)
\* a masked value that clears bits before it sets bits
MaskedValue_AndFirst(currentValue, orMask, andMask) == BitOr(BitAnd(currentValue, andMask), orMask)
\* maskedValue |= orMask; maskedValue &= andMask
MaskedValue(currentValue, orMask, andMask) == BitAnd(BitOr(currentValue, orMask), andMask)

Masks == {0, 15, 65280, 65535}
MaskedWriteArgs == [fn : {"maskedWrite"}, addr : {0, 20}, orMask : Masks, andMask : Masks]

\* what the device answers to the read of one register and to the write of one
\* register: the value or the echo, or an exception
ReadResponses ==
    {addCrc(<<MbSlaveId, 3, 2>> \o U16BE(v)) : v \in Values16}
    \cup {addCrc(<<MbSlaveId, 131, 2>>)}
WriteResponses ==
    {addCrc(<<MbSlaveId, 6>> \o U16BE(a) \o U16BE(v)) : a \in {0, 20}, v \in Values16}
    \cup {addCrc(<<MbSlaveId, 134, 4>>)}

\* the call up to its first await: readHoldingRegisters(registerAddr, 1) is sent
MaskedWriteCall ==
    /\ arg \in MaskedWriteArgs
    /\ maskedWrite = << >>
    /\ maskedWrite' = [pc |-> "reading",
                       exchanges |-> <<readHoldingRegisters(MbSlaveId, arg.addr, 1)>>,
                       currentValue |-> << >>]
    /\ UNCHANGED <<session, arg, ret, device, discovery>>

\* the read settles: a rejection is thrown on; otherwise currentValue is
\* currentValues[0] and, unless both masks are the defaults, writeHoldingRegister
\* sends the masked value
MaskedWriteReadSettles(pdu) ==
    /\ maskedWrite # << >>
    /\ maskedWrite.pc = "reading"
    /\ LET currentValues == parseResponseAdu(pdu, maskedWrite.exchanges[1])
       IN  IF ~currentValues.ok
           THEN /\ maskedWrite' = [maskedWrite EXCEPT !.pc = "thrown"]
                /\ ret' = <<currentValues>>
           ELSE LET currentValue == currentValues.val[1]
                IN  IF arg.orMask # 0 \/ arg.andMask # 65535
                    THEN /\ maskedWrite' =
                              [pc |-> "writing",
                               exchanges |-> Append(maskedWrite.exchanges,
                                    writeSingleRegister(MbSlaveId, arg.addr,
                                        MaskedValue(currentValue, arg.orMask, arg.andMask))),
                               currentValue |-> <<currentValue>>]
                         /\ ret' = ret
                    ELSE /\ maskedWrite' = [maskedWrite EXCEPT !.pc = "returned",
                                                               !.currentValue = <<currentValue>>]
                         /\ ret' = <<Ok(currentValue)>>
    /\ UNCHANGED <<session, arg, device, discovery>>

\* the write settles: writeHoldingRegister returns result[0], or the rejection is
\* thrown on; what the device's register becomes is for the step's device to say
MaskedWriteWriteSettles(pdu) ==
    /\ maskedWrite # << >>
    /\ maskedWrite.pc = "writing"
    /\ LET result == parseResponseAdu(pdu, maskedWrite.exchanges[2])
       IN  IF ~result.ok
           THEN /\ maskedWrite' = [maskedWrite EXCEPT !.pc = "thrown"]
                /\ ret' = <<result>>
           ELSE /\ maskedWrite' = [maskedWrite EXCEPT !.pc = "returned"]
                /\ ret' = <<Ok(result.val[1])>>
    /\ UNCHANGED <<session, arg, discovery>>

InitMasked ==
    /\ autoReconnect = FALSE
    /\ sequenceNumber = << >>
    /\ socket = 0
    /\ connected = FALSE
    /\ lastFrame = << >>
    /\ dataResolve = 0
    /\ dataReject = 0
    /\ dataWanted = FALSE
    /\ sockets = << >>
    /\ calls = << >>
    /\ nCalls = 0
    /\ settled = << >>
    /\ disc = << >>
    /\ written = << >>
    /\ arg \in MaskedWriteArgs
    /\ ret = << >>
    /\ maskedWrite = << >>
    /\ device = << >>
    /\ discovery = << >>

NextMasked ==
    \/ MaskedWriteCall
    \/ \E pdu \in ReadResponses : MaskedWriteReadSettles(pdu)
    \/ (UNCHANGED device /\ \E pdu \in WriteResponses : MaskedWriteWriteSettles(pdu))

SpecMasked == InitMasked /\ [][NextMasked]_vars

\* ------------------------------------------------------------------------
\* maskedWriteHoldingRegister against a device that has another writer
\* ------------------------------------------------------------------------

\* the device answers the read of the register with what the register holds
DeviceReadResponse == addCrc(<<MbSlaveId, 3, 2>> \o U16BE(device.value))

DeviceAnswersRead ==
    /\ device # << >>
    /\ MaskedWriteReadSettles(DeviceReadResponse)

\* the device carries out the write of the register and echoes the request
DeviceCarriesOutWrite ==
    /\ device # << >>
    /\ maskedWrite # << >>
    /\ maskedWrite.pc = "writing"
    /\ device' = [value    |-> ReadU16BE(maskedWrite.exchanges[2], 4),
                  replaced |-> <<device.value>>]
    /\ MaskedWriteWriteSettles(maskedWrite.exchanges[2])

\* another master, or the device itself, gives the register the value v
OtherWriter(v) ==
    /\ device # << >>
    /\ device.value # v
    /\ device' = [device EXCEPT !.value = v]
    /\ UNCHANGED <<session, arg, ret, maskedWrite, discovery>>

InitRace ==
    /\ autoReconnect = FALSE
    /\ sequenceNumber = << >>
    /\ socket = 0
    /\ connected = FALSE
    /\ lastFrame = << >>
    /\ dataResolve = 0
    /\ dataReject = 0
    /\ dataWanted = FALSE
    /\ sockets = << >>
    /\ calls = << >>
    /\ nCalls = 0
    /\ settled = << >>
    /\ disc = << >>
    /\ written = << >>
    /\ arg \in MaskedWriteArgs
    /\ ret = << >>
    /\ maskedWrite = << >>
    /\ device \in [value : Values16, replaced : {<< >>}]
    /\ discovery = << >>

NextRace ==
    \/ MaskedWriteCall
    \/ DeviceAnswersRead
    \/ DeviceCarriesOutWrite
    \/ \E v \in Values16 : OtherWriter(v)

SpecRace == InitRace /\ [][NextRace]_vars

\* ------------------------------------------------------------------------
\* Properties
\* ------------------------------------------------------------------------

\* the PendingExchange as the handlers test for it
PendingExchange == dataWanted /\ dataResolve # 0 /\ dataReject # 0

\* some sendReceive was issued in this step
Issued == nCalls' = nCalls + 1

TimeoutError == PlainError("Timeout waiting for response")

\* C1: a sendReceive issued while a PendingExchange exists fails at once: the new
\* call is rejected straight away, no frame is written, and the pending exchange
\* stays as it was.
C1_SecondCallFailsFast ==
    [][(PendingExchange /\ Issued) =>
          /\ settled' # << >>
          /\ settled'[1].id = nCalls'
          /\ ~settled'[1].res.ok
          /\ written' = << >>
          /\ UNCHANGED <<dataResolve, dataReject, calls>>]_vars

\* C2: at most one sendReceive that has sent its frame is unsettled at any time.
C2_AtMostOneOutstanding == Cardinality(DOMAIN calls) <= 1

\* C3: while an exchange is pending, a well-formed response frame (start, end,
\* checksum, serial, control code 0x15, frame type 2, a PDU with a valid CRC) whose
\* byte 5 is the pending request's sequence resolves the pending call with the
\* words of its PDU, 100..103, and empties the pending slot.
C3_ResponseResolvesPending ==
    [][\A s \in DOMAIN sockets :
          (PendingExchange /\ Data(s, "ok", calls[dataResolve].seq)) =>
              /\ settled' = Outcome(dataResolve, Ok(<<100, 101, 102, 103>>))
              /\ ~PendingExchange']_vars

\* the exception code each exception answer of the logger carries
ExceptionCodeOf(kind) == IF kind = "exception" THEN ExceptionPdu[3] ELSE ExceptionBadCrcPdu[3]

C5_ConnectFailure ==
    [][\A s \in DOMAIN sockets :
          (sockets[s].st = "connecting" /\ sockets'[s].st \notin {"connecting", "open"}) =>
              /\ sockets'[s].conn = "NoSocketAvailableError"
              /\ ~sockets'[s].lis
              /\ socket' # s
              /\ UNCHANGED <<socket, connected>>]_vars

C5_Witness ==
    /\ socket = 0
    /\ ~connected
    /\ \E s \in DOMAIN sockets : sockets[s].conn = "NoSocketAvailableError"
    /\ \A s \in DOMAIN sockets : ~sockets[s].lis

\* C6: when the timer of a call that is still waiting fires, the call is rejected
\* with the timeout error and no pending state is left behind (flag, resolver and
\* rejecter cleared, the call no longer waiting), and a sendReceive issued next on
\* a usable socket is accepted: it becomes the pending exchange and its frame is
\* written.
C6_TimeoutClearsPending ==
    /\ [][\A c \in DOMAIN calls :
             Timeout(c) =>
                 /\ settled' = Outcome(c, TimeoutError)
                 /\ c \notin DOMAIN calls'
                 /\ ~dataWanted'
                 /\ dataResolve' = 0
                 /\ dataReject' = 0]_vars
    /\ [][(/\ settled # << >>
           /\ settled[1].res = TimeoutError
           /\ Issued
           /\ socket # 0
           /\ sockets[socket].st = "open") =>
              /\ PendingExchange'
              /\ dataResolve' = nCalls'
              /\ nCalls' \in DOMAIN calls'
              /\ written' = <<[sock |-> socket, frame |-> lastFrame',
                               site |-> "sendReceiveFrame"]>>]_vars

\* a timer has just rejected its call on a session whose socket is still usable
C6_Witness ==
    /\ settled # << >>
    /\ settled[1].res = TimeoutError
    /\ ~PendingExchange
    /\ dataResolve = 0
    /\ nCalls < MaxCalls
    /\ socket # 0
    /\ sockets[socket].st = "open"

\* timers are fair: an armed timer that is never cleared fires
FairSpec ==
    /\ Spec
    /\ \A c \in 1..MaxCalls : WF_vars(Timeout(c))
    /\ \A d \in 1..MaxSockets : WF_vars(GraceTimer(d))

\* C7: every sendReceive that installed a pending exchange settles in the end, with
\* an outcome handed to its caller, whatever the logger, the network and the caller
\* do meanwhile, provided the timers are fair.
C7_EveryCallSettles ==
    /\ \A c \in 1..MaxCalls : (c \in DOMAIN calls) ~> (c \notin DOMAIN calls)
    /\ [][\A c \in DOMAIN calls :
             (c \notin DOMAIN calls') => settled' # << >> /\ settled'[1].id = c]_vars

\* call 1 lost the slot to call 2 and was settled by its own timer
C7_Witness ==
    /\ settled = Outcome(1, TimeoutError)
    /\ 2 \in DOMAIN calls

\* C8: every request takes the next sequence number: one of 1..254 when none was
\* taken before, else the previous one + 1 modulo 256, 0 included, and the frame
\* written carries it in bytes 5 and 6; nothing else moves the counter; and a
\* well-formed response echoing 0 resolves the pending request of sequence 0.
C8_SequenceNumbers ==
    /\ [][Issued =>
             /\ sequenceNumber' # << >>
             /\ sequenceNumber = << >> => sequenceNumber'[1] \in 1..254
             /\ sequenceNumber # << >> => sequenceNumber'[1] = (sequenceNumber[1] + 1) % 256
             /\ written' # << >> =>
                    /\ At(written'[1].frame, 5) = sequenceNumber'[1]
                    /\ At(written'[1].frame, 6) = 0]_vars
    /\ [][~Issued => UNCHANGED sequenceNumber]_vars
    /\ [][\A s \in DOMAIN sockets :
             (PendingExchange /\ calls[dataResolve].seq = 0 /\ Data(s, "ok", 0)) =>
                 /\ settled' = Outcome(dataResolve, Ok(<<100, 101, 102, 103>>))
                 /\ ~PendingExchange']_vars

\* the request of sequence 0, reached by wrapping, got its answer
C8_Witness ==
    /\ sequenceNumber = <<0>>
    /\ settled # << >>
    /\ settled[1].res = Ok(<<100, 101, 102, 103>>)

\* C9: with auto-reconnect on, the close of the socket during a pending exchange
\* starts a reconnect and settles nothing; when that reconnect succeeds, the frame of
\* the pending request is written again on the new socket, byte for byte as it was
\* encoded with its sequence number; neither step makes a call, a pending exchange,
\* a sequence number or a timer; the call stays the pending one with its own timer,
\* and a response echoing the counter resolves it.
C9_RetransmitAfterReconnect ==
    /\ [][\A s \in DOMAIN sockets :
             (autoReconnect /\ PendingExchange /\ sockets[s].lis /\ CloseEvent(s)) =>
                 /\ settled' = << >>
                 /\ sockets'[Len(sockets')].by = "resend"
                 /\ sockets'[Len(sockets')].st = "connecting"
                 /\ UNCHANGED <<calls, dataResolve, dataReject, dataWanted, sequenceNumber,
                                nCalls, lastFrame>>]_vars
    /\ [][\A s \in DOMAIN sockets :
             (sockets[s].by = "resend" /\ PendingExchange /\ ConnectOk(s)) =>
                 /\ written' = <<[sock |-> s,
                                  frame |-> v5FrameEncoder(calls[dataResolve].req,
                                                           calls[dataResolve].seq),
                                  site |-> "close handler"]>>
                 /\ socket' = s
                 /\ settled' = << >>
                 /\ UNCHANGED <<calls, dataResolve, dataReject, dataWanted, sequenceNumber,
                                nCalls, lastFrame>>]_vars
    /\ [][\A s \in DOMAIN sockets :
             (PendingExchange /\ sequenceNumber = <<calls[dataResolve].seq>>
              /\ Data(s, "ok", sequenceNumber[1])) =>
                 settled' = Outcome(dataResolve, Ok(<<100, 101, 102, 103>>))]_vars

\* the frame of the pending call has just been written again
C9_Witness ==
    /\ autoReconnect
    /\ PendingExchange
    /\ written # << >>
    /\ written[1].site = "close handler"
    /\ written[1].sock = socket
    /\ written[1].frame = v5FrameEncoder(calls[dataResolve].req, calls[dataResolve].seq)

ClosedOnRead == NoSocketAvailableError("Connection closed on read")

\* C10: when the close handler of a socket runs during a pending exchange with
\* auto-reconnect off, and when the reconnect it started with auto-reconnect on
\* fails while the exchange is still pending, the pending call is rejected with
\* NoSocketAvailableError.
C10_CloseRejectsPending ==
    /\ [][\A s \in DOMAIN sockets :
             (~autoReconnect /\ PendingExchange /\ sockets[s].lis /\ CloseEvent(s)) =>
                 /\ settled' = Outcome(dataReject, ClosedOnRead)
                 /\ dataReject \notin DOMAIN calls']_vars
    /\ [][\A s \in DOMAIN sockets :
             (sockets[s].by = "resend" /\ PendingExchange /\ ConnectFail(s)) =>
                 /\ settled' = Outcome(dataReject, ClosedOnRead)
                 /\ dataReject \notin DOMAIN calls']_vars

\* the reconnect after a close during a pending exchange failed
C10_Witness ==
    /\ autoReconnect
    /\ settled # << >>
    /\ settled[1].res = ClosedOnRead
    /\ socket = 0

\* the disconnect() calls that complete in this step
Completing == {d \in DOMAIN disc : ~disc[d].done /\ disc'[d].done}

C12_NoSocketLeavesSessionUnchanged ==
    [][(Issued /\ (socket = 0 \/ Destroyed(sockets, socket))) =>
          /\ settled' = Outcome(nCalls', NoSocketAvailableError("Connection already closed."))
          /\ written' = << >>
          /\ UNCHANGED <<sequenceNumber, lastFrame, dataWanted, dataResolve, dataReject,
                         calls>>]_vars

\* the function fn has been called and has returned or thrown
Called(fn) == arg # << >> /\ arg.fn = fn /\ ret # << >>

\* C13 as stated: decoding the frame the encoder made for a PDU and a sequence
\* number, with that sequence number current, gives back the PDU.
C13_EnvelopeRoundTrip ==
    Called("encodeDecode") => ret[1].decoded = Ok(arg.pdu)

\* C13 as the code has it: the decoder refuses every frame of the encoder, whose
\* control code is the request's 0x45 and not the response's 0x15; the encoder puts
\* the PDU at offset 26, so that the range the decoder reads, from offset 25, is the
\* PDU after one zero byte; the PDU of 5 bytes or more comes back unchanged from the
\* response envelope of the logger, which carries 0x15 and the PDU at offset 25.
C13_RoundTripThroughResponse ==
    /\ Called("encodeDecode") =>
          /\ ret[1].decoded = V5FrameError("V5 frame contains incorrect control code")
          /\ SubArray(ret[1].frame, 26, Len(ret[1].frame) - 2) = arg.pdu
          /\ SubArray(ret[1].frame, 25, Len(ret[1].frame) - 2) = <<0>> \o arg.pdu
    /\ Called("replyDecode") =>
          IF Len(arg.pdu) >= 5 THEN ret[1] = Ok(arg.pdu) ELSE ~ret[1].ok

\* the logger's response around the register response has been decoded
C13_Witness ==
    /\ Called("replyDecode")
    /\ arg.pdu = GoodPdu
    /\ ret[1] = Ok(GoodPdu)

RECURSIVE Crc16Bits(_, _)
\* k shifts of a reflected CRC register with polynomial 0xA001
Crc16Bits(crc, k) ==
    IF k = 0 THEN crc
    ELSE Crc16Bits(IF crc % 2 = 1 THEN Xor(crc \div 2, 40961) ELSE crc \div 2, k - 1)

RECURSIVE Crc16Reference(_, _)
\* CRC-16 with reflected polynomial 0xA001 over the bytes d, one bit at a time,
\* from the register value crc
Crc16Reference(crc, d) ==
    IF d = << >> \/ crc < 0 THEN crc
    ELSE Crc16Reference(Crc16Bits(Xor(crc, Head(d)), 8), Tail(d))

BuilderCalled ==
    \/ Called("readRequest")
    \/ Called("writeSingle")
    \/ Called("writeMultipleCoils")
    \/ Called("writeMultipleRegisters")

\* C14: addCrc(d) is d followed by the CRC-16 (reflected polynomial 0xA001, seed
\* 0xFFFF) of d, low byte first; verifyCrc accepts addCrc(d) when that has at
\* least 4 bytes and rejects every frame shorter than 4 bytes; the frame of every
\* request builder passes verifyCrc; the CRC of 01 03 00 00 00 0A is 0xCDC5,
\* appended as C5 CD.
C14_CrcAppendedAndVerified ==
    /\ Called("crc") =>
          LET c == Crc16Reference(65535, arg.data)
          IN  /\ ret[1].crc = c
              /\ ret[1].added = arg.data \o <<c % 256, c \div 256>>
              /\ Len(ret[1].added) >= 4 => ret[1].verified
              /\ Len(ret[1].added) < 4 => ~ret[1].verified
              /\ Len(arg.data) < 4 => ~ret[1].bare
    /\ BuilderCalled => verifyCrc(ret[1])
    /\ (Called("readRequest") /\ arg.fc = 3 /\ arg.addr = 0 /\ arg.quantity = 10) =>
          /\ ret[1] = <<1, 3, 0, 0, 0, 10, 197, 205>>
          /\ crc16(SubArray(ret[1], 0, 6)) = 52677

C14_Witness ==
    /\ Called("crc")
    /\ Len(arg.data) = MaxPduLen
    /\ ret[1].verified
    /\ ret[1].added # arg.data \o <<0, 0>>

\* bit k of the byte b
BitOf(b, k) == (b \div (2 ^ k)) % 2

\* C15: writeMultipleCoils packs the coils LSB-first (bit i mod 8 of payload byte
\* floor(i/8) is value i, so 1,0,1,1,0,0,1,0 packs to 0b01001101), and the packed
\* bytes parsed as the response to a coil read of n coils give the list back.
C15_CoilPackingRoundTrips ==
    Called("coilRoundTrip") =>
        LET n == Len(arg.values)
        IN  /\ Len(ret[1].packed) = CeilDiv8(n)
            /\ \A i \in 0..(n - 1) :
                  BitOf(ret[1].packed[(i \div 8) + 1], i % 8) = arg.values[i + 1]
            /\ arg.values = <<1, 0, 1, 1, 0, 0, 1, 0>> => ret[1].packed = <<77>>
            /\ ret[1].parsed = Ok(arg.values)

C15_Witness ==
    /\ Called("coilRoundTrip")
    /\ arg.values = <<1, 0, 1, 1, 0, 0, 1, 0, 1>>
    /\ ret[1].packed = <<77, 1>>
    /\ ret[1].parsed = Ok(arg.values)

\* 2^k as a number held as <<hi, lo>>
WPow2(k) == IF k < 16 THEN <<0, 2 ^ k>> ELSE <<2 ^ (k - 16), 0>>

\* the value the b low bits v stand for in two's complement
SignedValue(v, b) == IF WLess(v, WPow2(b - 1)) THEN v ELSE WSub(v, WPow2(b))

\* C16: for b = 16 and b = 32 and every raw value 0 <= v < 2^b, twosComplement(v, b)
\* is v - 2^b when v >= 2^(b-1) and v otherwise (0xFFFF over 16 bits gives -1,
\* 0x8000 gives -32768, 100 stays 100; 0xFFFFFFFF over 32 bits gives -1).
C16_TwosComplement ==
    Called("twosComplement") => ret[1] = SignedValue(arg.val, arg.numBits)

\* C16 for 16 bits alone
C16_TwosComplement16 ==
    (Called("twosComplement") /\ arg.numBits = 16) =>
        /\ ret[1] = SignedValue(arg.val, 16)
        /\ arg.val = WideOf(65535) => ret[1] = WideOf(-1)
        /\ arg.val = WideOf(32768) => ret[1] = WideOf(-32768)
        /\ arg.val = WideOf(100) => ret[1] = WideOf(100)

\* what the code does over 32 bits: 1 << 32 is 1, so a value with bit 31 set
\* comes back as v - 1
C16_TwosComplement32IsOff ==
    (Called("twosComplement") /\ arg.numBits = 32) =>
        ret[1] = IF WLess(arg.val, WPow2(31)) THEN arg.val ELSE WSub(arg.val, WideOf(1))

\* the registers read big-endian as one integer: the sum of reg[i] * 2^(16 * (n-1-i))
AssembledValue(regs) ==
    IF Len(regs) = 1 THEN <<0, regs[1]>> ELSE <<regs[1], regs[2]>>

\* the four steps of a formatted read, each applied only if requested, in the order
\* signed interpretation, scale, bitmask, bit-shift
FormattedValue(regs, o) ==
    LET signed  == IF o.signed THEN SignedValue(AssembledValue(regs), 16 * Len(regs))
                   ELSE AssembledValue(regs)
        scaled  == IF o.scale.num = o.scale.den THEN [num |-> signed, den |-> 1]
                   ELSE [num |-> WScale(signed, o.scale.num), den |-> o.scale.den]
        masked  == IF o.bitmask = << >> THEN scaled
                   ELSE [num |-> WideOf(And32(ToInt32(WTruncDiv(scaled.num, scaled.den)),
                                              o.bitmask[1])),
                         den |-> 1]
        shifted == IF o.bitshift = << >> THEN masked
                   ELSE [num |-> WideOf(Shr32(ToInt32(WTruncDiv(masked.num, masked.den)),
                                              o.bitshift[1])),
                         den |-> 1]
    IN  shifted

\* C17: a formatted read assembles the n registers big-endian into one integer and
\* then applies, in this order and each only if requested, signed interpretation
\* over n*16 bits, scale multiplication, bitmask AND and right bit-shift; with no
\* options the result is the assembled unsigned value (a single register 100
\* gives 100, and with scale 0.1 gives 10.0).
C17_FormattedRead ==
    Called("formatResponse") =>
        /\ ret[1] = FormattedValue(arg.values, arg.options)
        /\ arg.options = NoOptions => ret[1] = [num |-> AssembledValue(arg.values), den |-> 1]
        /\ (arg.values = <<100>> /\ arg.options = NoOptions) => ret[1] = [num |-> WideOf(100), den |-> 1]
        /\ (arg.values = <<100>> /\ arg.options = [NoOptions EXCEPT !.scale = [num |-> 1, den |-> 10]]) =>
              (ret[1].den = 10 /\ ret[1].num = WideOf(10 * ret[1].den))

\* the signed read of two registers whose value has the sign bit set
Signed32Negative == arg.options.signed /\ Len(arg.values) = 2 /\ arg.values[1] >= 32768

\* C17 away from the 32-bit values that twosComplement gets wrong
C17_FormattedReadButSigned32 ==
    (Called("formatResponse") /\ ~Signed32Negative) =>
        /\ ret[1] = FormattedValue(arg.values, arg.options)
        /\ arg.options = NoOptions => ret[1] = [num |-> AssembledValue(arg.values), den |-> 1]

DefaultMasks == arg.orMask = 0 /\ arg.andMask = 65535

\* C18: a masked write reads the register with one exchange and, unless orMask =
\* 0x0000 and andMask = 0xFFFF, then writes exactly (current | orMask) & andMask
\* with a second exchange and returns the value the write echoed; with the default
\* masks it issues no write and returns the value read.
C18_MaskedWrite ==
    /\ [](maskedWrite # << >> =>
            /\ maskedWrite.exchanges[1] = <<MbSlaveId, 3>> \o U16BE(arg.addr) \o <<0, 1>>
                                           \o getCrc(<<MbSlaveId, 3>> \o U16BE(arg.addr) \o <<0, 1>>)
            /\ maskedWrite.pc = "reading" => Len(maskedWrite.exchanges) = 1
            /\ (maskedWrite.pc = "returned" /\ DefaultMasks) =>
                  /\ Len(maskedWrite.exchanges) = 1
                  /\ ret = <<Ok(maskedWrite.currentValue[1])>>
            /\ (maskedWrite.pc \in {"writing", "returned"} /\ ~DefaultMasks) =>
                  /\ Len(maskedWrite.exchanges) = 2
                  /\ maskedWrite.exchanges[2][2] = 6
                  /\ ReadU16BE(maskedWrite.exchanges[2], 2) = arg.addr
                  /\ \A k \in 0..15 :
                        BitOf(ReadU16BE(maskedWrite.exchanges[2], 4), k) =
                            IF BitOf(arg.andMask, k) = 0 THEN 0
                            ELSE IF BitOf(arg.orMask, k) = 1 THEN 1
                            ELSE BitOf(maskedWrite.currentValue[1], k)
                  /\ verifyCrc(maskedWrite.exchanges[2]))
    /\ [][\A pdu \in ReadResponses :
            (MaskedWriteReadSettles(pdu) /\ pdu[2] = 3) =>
                /\ maskedWrite'.currentValue = <<ReadU16BE(pdu, 3)>>
                /\ maskedWrite'.pc = IF DefaultMasks THEN "returned" ELSE "writing"]_vars
    /\ [][\A pdu \in WriteResponses :
            (MaskedWriteWriteSettles(pdu) /\ pdu[2] = 6) =>
                /\ ret' = <<Ok(ReadU16BE(pdu, 4))>>
                /\ maskedWrite'.pc = "returned"
                /\ maskedWrite'.exchanges = maskedWrite.exchanges]_vars

C18_Witness ==
    /\ maskedWrite # << >>
    /\ maskedWrite.pc = "returned"
    /\ arg.orMask = 15 /\ arg.andMask = 65280
    /\ maskedWrite.currentValue = <<258>>
    /\ ReadU16BE(maskedWrite.exchanges[2], 4) = 256
    /\ ret = <<Ok(65535)>>

\* the name an exception code is reported by
ExceptionName(c) ==
    CASE c = 1 -> "IllegalFunction"
      [] c = 2 -> "IllegalDataAddress"
      [] c = 3 -> "IllegalDataValue"
      [] c = 4 -> "ServerDeviceFailure"
      [] c = 5 -> "Acknowledge"
      [] c = 6 -> "ServerDeviceBusy"
      [] OTHER -> "UnknownException(" \o ToString(c) \o ")"

\* the response answers the request with an exception
IsExceptionResponse == arg.response[2] = arg.request[2] + 128

\* C19: parseResponseAdu rejects a response shorter than 5 bytes; otherwise a
\* response whose function code is the request's + 0x80 raises the Modbus
\* exception of the next byte, whether or not its CRC matches; codes 1..6 are
\* reported by name and every other code by its number; a response that is no
\* exception and whose CRC does not match fails with the CRC error.
C19_ParseResponseErrors ==
    Called("parseResponse") =>
        /\ Len(arg.response) < 5 => ~ret[1].ok
        /\ (Len(arg.response) >= 5 /\ IsExceptionResponse) =>
              /\ ~ret[1].ok
              /\ ret[1].err = "ModbusError"
              /\ ret[1].code = arg.response[3]
              /\ ret[1].msg = "Modbus exception: " \o ExceptionName(arg.response[3])
        /\ (Len(arg.response) >= 5 /\ ~IsExceptionResponse /\ ~verifyCrc(arg.response)) =>
              ret[1] = PlainError("Modbus response CRC verification failed")

C19_Witness ==
    /\ Called("parseResponse")
    /\ arg.request = readHoldingRegisters(MbSlaveId, 0, 2)
    /\ arg.response = <<MbSlaveId, 131, 7, 255, 255>>
    /\ ~verifyCrc(arg.response)
    /\ ret[1].code = 7
    /\ ret[1].msg = "Modbus exception: UnknownException(7)"

\* the response is one that parseResponseAdu decodes: at least 5 bytes, no exception
\* to the request, CRC matching
Decodable ==
    /\ Called("parseResponse")
    /\ Len(arg.response) >= 5
    /\ ~IsExceptionResponse
    /\ verifyCrc(arg.response)

\* the byte count of a read response, and the bytes between it and the CRC
ByteCount == arg.response[3]
PayloadBytes == SubArray(arg.response, 3, Len(arg.response) - 2)

\* FC 1/2: as many bits as the request asked for, bit i being bit (i mod 8) of
\* payload byte floor(i/8)
DecodesBits ==
    arg.response[2] \in {1, 2} =>
        /\ ret[1].ok
        /\ Len(ret[1].val) = ReadU16BE(arg.request, 4)
        /\ \A i \in 0..(Len(ret[1].val) - 1) :
              (i \div 8) < Len(PayloadBytes) =>
                  ret[1].val[i + 1] = BitOf(PayloadBytes[(i \div 8) + 1], i % 8)

\* FC 5/6 and FC 15/16: the one 16-bit value at bytes 4..5
DecodesEcho ==
    arg.response[2] \in {5, 6, 15, 16} =>
        ret[1] = Ok(<<256 * arg.response[5] + arg.response[6]>>)

DecodesUnsupported ==
    arg.response[2] \notin FunctionCodes =>
        ret[1] = PlainError("Unsupported Modbus function code")

WellFormedResponse ==
    CASE arg.response[2] \in {1, 2, 3, 4} ->
             Len(PayloadBytes) = ByteCount /\ (arg.response[2] \in {3, 4} => ByteCount % 2 = 0)
      [] arg.response[2] \in {5, 6, 15, 16} -> Len(arg.response) = 8
      [] OTHER -> TRUE

C21_ResolvedByOwnSequence ==
    [][\A s \in DOMAIN sockets, kind \in Kinds, q \in SeqBytes :
          (Data(s, kind, q) /\ settled' # << >>) =>
              /\ settled'[1].id = dataResolve
              /\ q = calls[dataResolve].seq]_vars

\* the step settled nothing, wrote nothing and left the session as it was
NothingDone ==
    /\ settled' = << >>
    /\ written' = << >>
    /\ UNCHANGED <<dataWanted, dataResolve, dataReject, calls, sockets, socket,
                   connected, sequenceNumber, lastFrame, nCalls, disc>>

\* the sockets whose 'data' listener is in place
Listening == {s \in DOMAIN sockets : sockets[s].st = "open" /\ sockets[s].lis}

\* C22: an inbound frame whose start marker is not 0xA5 or whose sequence byte is
\* not the current sequence number is discarded: nothing is raised or settled,
\* nothing is written, and the pending state and every call's timer stay as they
\* are, whether an exchange is pending or not.  (Read: a step either does nothing,
\* or it is not the arrival of such a frame.)
C22_InvalidFrameDiscarded ==
    [][NothingDone \/
       ~\E s \in Listening, kind \in Kinds, q \in SeqBytes :
            /\ kind = "badstart" \/ <<q>> # sequenceNumber
            /\ Data(s, kind, q)]_vars

\* the one exchange of a session is pending on its first socket and the last step
\* neither wrote nor settled anything: a frame has come in and changed nothing
C22_Witness ==
    /\ PendingExchange
    /\ nCalls = 1
    /\ Len(sockets) = 1
    /\ sockets[1].st = "open"
    /\ socket = 1
    /\ disc = << >>
    /\ calls # << >>
    /\ written = << >>
    /\ settled = << >>

\* the time responses handleProtocolFrame may build for a frame
TimeResponses(frame) == {v5TimeResponseFrame(frame, now) : now \in Times}

\* the session's socket is there and open
SessionSocketOpen == socket # 0 /\ sockets[socket].st = "open"

\* no exchange was settled and the pending state is what it was
PendingUntouched ==
    /\ settled' = << >>
    /\ UNCHANGED <<dataWanted, dataResolve, dataReject, calls, sequenceNumber, lastFrame>>

\* the last step answered a logger's frame with a time response
TimeResponseSent == written # << >> /\ written[1].site = "handleProtocolFrame"

\* the time responses to the frame of each asynchronous class and sequence byte
TimeResponseTable ==
    [q \in 0..255 |-> [kind \in AsyncKinds |-> TimeResponses(AsyncFrames[q][kind])]]

\* the step wrote nothing, or a time response to the frame of this class
WroteNoOther(kind, q) ==
    written' = << >> \/ written'[1].frame \in TimeResponseTable[q][kind]

\* C23: when a frame that passed the start and sequence validation carries the
\* control code of an asynchronous class (handshake, data, info, heartbeat,
\* report), the session writes exactly one time response for that frame on its
\* open socket (and nothing when it holds no open socket), and the pending
\* exchange, if any, is neither resolved nor rejected: its state stays as it was,
\* and the response that arrives next still resolves it.  Whatever
\* handleProtocolFrame writes is one time response to a frame of such a class.
C23_AsyncFrameAnswered ==
    /\ [][\A s \in Listening, kind \in AsyncKinds, q \in SeqBytes :
             (<<q>> = sequenceNumber /\ WroteNoOther(kind, q) /\ Async(s, kind, q)) =>
                 /\ IF SessionSocketOpen
                    THEN /\ Len(written') = 1
                         /\ written'[1].sock = socket
                         /\ written'[1].frame \in TimeResponses(AsyncFrames[q][kind])
                    ELSE written' = << >>
                 /\ PendingUntouched]_vars
    /\ [][TimeResponseSent' =>
             /\ Len(written') = 1
             /\ sequenceNumber # << >>
             /\ \E kind \in AsyncKinds :
                    written'[1].frame \in TimeResponseTable[sequenceNumber[1]][kind]
             /\ PendingUntouched
             /\ Listening' # {}]_vars
    /\ [][(TimeResponseSent /\ PendingExchange) =>
             \A s \in Listening :
                 Data(s, "ok", sequenceNumber[1]) =>
                     /\ settled' # << >>
                     /\ settled'[1].id = dataResolve
                     /\ settled'[1].res.ok]_vars

\* a time response has just been written while an exchange is pending
C23_Witness ==
    /\ TimeResponseSent
    /\ PendingExchange
    /\ Len(written) = 1
    /\ written[1].sock = socket
    /\ \E q \in SeqBytes : written[1].frame \in TimeResponses(AsyncFrames[q]["handshake"])

\* the error a socket hands to its 'error' listeners
SocketErr == PlainError("socket error")

\* the sockets whose 'error' and 'close' handlers of the session are in place
Handled == {s \in DOMAIN sockets : sockets[s].lis}

\* some socket is connecting in order to write the last frame again
Resending(socks) == \E s \in DOMAIN socks : socks[s].st = "connecting" /\ socks[s].by = "resend"

\* C24: when a socket reports an error while an exchange is pending, the pending
\* call is rejected with that error and the pending state (flag, resolver,
\* rejecter) is cleared; the close event that follows finds nothing wanted: it
\* rejects no call, writes nothing and starts no reconnect that would write the
\* last frame again.
C24_ErrorRejectsOnce ==
    /\ [][\A s \in Handled :
             (PendingExchange /\ SocketError(s)) =>
                 /\ settled' = Outcome(dataReject, SocketErr)
                 /\ dataReject \notin DOMAIN calls'
                 /\ ~dataWanted' /\ dataResolve' = 0 /\ dataReject' = 0
                 /\ written' = << >>
                 /\ sockets'[s].st = "destroyed"]_vars
    /\ [][\A s \in DOMAIN sockets :
             (~dataWanted /\ CloseEvent(s)) =>
                 /\ settled' = << >>
                 /\ written' = << >>
                 /\ Resending(sockets') => Resending(sockets)
                 /\ UNCHANGED <<dataWanted, dataResolve, dataReject, calls, lastFrame>>]_vars
    /\ [][(settled' # << >> /\ settled'[1].res = SocketErr) =>
             /\ settled'[1].id \in DOMAIN calls
             /\ settled'[1].id \notin DOMAIN calls'
             /\ ~dataWanted']_vars

\* a socket error has just rejected the pending call, and the close event of that
\* socket is still to come
C24_Witness ==
    /\ settled # << >>
    /\ settled[1].res = SocketErr
    /\ ~dataWanted /\ dataResolve = 0 /\ dataReject = 0
    /\ lastFrame # << >>
    /\ \E s \in Handled : sockets[s].st = "destroyed"

\* a step of connect(), reconnect(), disconnect() or of an automatic reconnect:
\* the calls themselves, the 'connect' and 'error' events that complete them,
\* the 'close' events and the grace timer
ConnectionStep ==
    \/ Connect
    \/ Reconnect
    \/ Disconnect
    \/ \E s \in DOMAIN sockets : ConnectOk(s) \/ ConnectFail(s) \/ CloseEvent(s)
    \/ \E d \in DOMAIN disc : GraceTimer(d)

\* a socket was opened after the first one: the session has connected again
ConnectedAgain == Len(sockets) >= 2

\* C25: connect(), reconnect(), disconnect() and the automatic reconnect leave the
\* sequence counter as it is; a request issued after the session connected again
\* takes the counter + 1 modulo 256 and its frame carries that number; and once
\* set, the counter is never unset: it is unset only before the first request of a
\* session.
C25_CounterSurvivesReconnect ==
    /\ [][ConnectionStep => UNCHANGED sequenceNumber]_vars
    /\ [][(Issued /\ ConnectedAgain /\ sequenceNumber # << >>) =>
             /\ sequenceNumber' = <<(sequenceNumber[1] + 1) % 256>>
             /\ written' # << >> => U16LE(sequenceNumber'[1]) = SubArray(written'[1].frame, 5, 7)]_vars
    /\ [][sequenceNumber' = << >> => (sequenceNumber = << >> /\ nCalls' = 0)]_vars

\* the request written on the second socket of the session carries 0, the number
\* after 255
C25_Witness ==
    /\ ConnectedAgain
    /\ socket = 2
    /\ written # << >>
    /\ written[1].sock = 2
    /\ written[1].site = "sendReceiveFrame"
    /\ sequenceNumber = <<0>>
    /\ SubArray(written[1].frame, 5, 7) = <<0, 0>>

\* C26: the timeout timer of an exchange affects only that exchange: when the
\* timer of a call fires while the pending exchange is that of a later call (the
\* earlier one was ended by disconnect() or superseded), the pending state of the
\* later exchange is neither cleared nor rejected, so its response can still
\* resolve it.
C26_TimerOnlyOwnExchange ==
    [][\A c \in DOMAIN calls :
          (PendingExchange /\ dataResolve # c /\ Timeout(c)) =>
              /\ UNCHANGED <<dataWanted, dataResolve, dataReject>>
              /\ dataResolve \in DOMAIN calls']_vars

\* C27: the grace timer of a disconnect() only ever destroys the socket that call
\* ended: when the timer fires, every other socket stays as it is and the session
\* keeps the connection it has made since; in particular a connection made after
\* the disconnect() completed on the graceful close of its socket survives the
\* timer.
C27_GraceTimerOwnSocket ==
    [][\A d \in DOMAIN disc :
          GraceTimer(d) =>
              /\ \A s \in DOMAIN sockets : sockets[s].dlis # d => sockets'[s] = sockets[s]
              /\ (socket # 0 /\ sockets[socket].dlis # d) => UNCHANGED <<socket, connected>>]_vars

\* socket s is the one an automatic reconnect opened in order to write the last
\* frame again, and no connect() or reconnect() was called since (each of them
\* opens a newer socket)
ResendInFlight(s) ==
    /\ s = Len(sockets)
    /\ sockets[s].st = "connecting"
    /\ sockets[s].by = "resend"

\* disconnect() was called, and completed at once, after the close handler started
\* its reconnect: the handler found the flag up and a rejecter installed, and only
\* disconnect() lowers the flag and leaves the rejecter
DisconnectedMeanwhile == socket = 0 /\ ~dataWanted /\ dataReject # 0

\* C28: once disconnect() has completed the session stays disconnected until the
\* caller calls connect() or reconnect(): when the automatic reconnect that was in
\* flight at the disconnect() connects, the session takes no socket, is not
\* connected and writes nothing.
C28_StaysDisconnected ==
    [][\A s \in DOMAIN sockets :
          (ResendInFlight(s) /\ DisconnectedMeanwhile /\ ConnectOk(s)) =>
              /\ socket' = 0
              /\ ~connected'
              /\ written' = << >>]_vars

\* C29: the reconnect a close handler started for a pending exchange writes the
\* last frame on the new socket only if the exchange still waits when the socket
\* connects: when every call was settled meanwhile (by its timeout or otherwise)
\* and nothing is pending, nothing is written.
C29_ResendOnlyIfPending ==
    [][\A s \in DOMAIN sockets :
          (sockets[s].by = "resend" /\ ~PendingExchange /\ DOMAIN calls = {} /\ ConnectOk(s)) =>
              written' = << >>]_vars

\* C30: between event handlers the flag, the resolver and the rejecter go
\* together: dataWanted is true exactly when dataResolve and dataReject are
\* installed, so that all three are cleared whenever an exchange has ended.
C30_PendingStateConsistent ==
    dataWanted <=> (dataResolve # 0 /\ dataReject # 0)

\* ------------------------------------------------------------------------
\* Response envelopes with faults
\* ------------------------------------------------------------------------

\* what a response envelope can have wrong
Faults == {"start", "end", "checksum", "sequence", "serial", "control", "frametype"}
FrameFaults == Faults \ {"sequence"}

\* the logger's response around GoodPdu with sequence byte q and the given faults
FaultyFrame(faults, q) ==
    ServerFrame(IF "start" \in faults THEN 0 ELSE V5_START,
                IF "control" \in faults THEN REQUEST ELSE getResponseCode(REQUEST),
                q,
                IF "serial" \in faults THEN U32LE(Serial + 1) ELSE v5Serial,
                IF "frametype" \in faults THEN 1 ELSE 2,
                GoodPdu,
                IF "checksum" \in faults THEN 1 ELSE 0,
                IF "end" \in faults THEN 0 ELSE V5_END)
FaultyFrames == [q \in 0..255 |-> [faults \in SUBSET FrameFaults |-> FaultyFrame(faults, q)]]

\* v5FrameDecoder on a frame with any of the faults, with this.sequenceNumber = seq;
\* the frame with the fault "sequence" echoes seq + 1
FaultyDecodeArgs == [fn : {"faultyDecode"}, faults : SUBSET Faults, seq : SeqInputs]
FaultyDecode ==
    /\ arg \in FaultyDecodeArgs
    /\ ret = << >>
    /\ LET q == IF "sequence" \in arg.faults THEN (arg.seq + 1) % 256 ELSE arg.seq
       IN  ret' = <<v5FrameDecoder(FaultyFrames[q][arg.faults \ {"sequence"}], <<arg.seq>>)>>
    /\ UNCHANGED <<session, arg, maskedWrite, device, discovery>>

\* the frames the logger of this session sends: with up to two faults
SessionFaults == {faults \in SUBSET FrameFaults : Cardinality(faults) <= 2}
Faulty(s, faults, q) == DataEvent(s, FaultyFrames[q][faults])

MaxEnvelopeCalls == 1

\* either the decoder is called on its own, or a session runs
InitEnvelope ==
    /\ autoReconnect \in BOOLEAN
    /\ sequenceNumber = << >>
    /\ socket = 0
    /\ connected = FALSE
    /\ lastFrame = << >>
    /\ dataResolve = 0
    /\ dataReject = 0
    /\ dataWanted = FALSE
    /\ sockets = << >>
    /\ calls = << >>
    /\ nCalls = 0
    /\ settled = << >>
    /\ disc = << >>
    /\ written = << >>
    /\ arg \in FaultyDecodeArgs \cup {<< >>}
    /\ ret = << >>
    /\ maskedWrite = << >>
    /\ device = << >>
    /\ discovery = << >>

SessionRuns == arg = << >>

\* a session whose logger answers with faulty envelopes, with a caller that awaits
\* each sendReceive before it issues the next
NextEnvelope ==
    \/ FaultyDecode
    \/ (SessionRuns /\ Connect)
    \/ (SessionRuns /\ Reconnect)
    \/ (SessionRuns /\ Disconnect)
    \/ (SessionRuns /\ nCalls < MaxEnvelopeCalls /\ DOMAIN calls = {}
        /\ \E req \in Requests : SendReceive(req))
    \/ (SessionRuns /\ \E c \in DOMAIN calls : Timeout(c))
    \/ (SessionRuns /\ \E s \in DOMAIN sockets : ConnectOk(s))
    \/ (SessionRuns /\ \E s \in DOMAIN sockets : ConnectFail(s))
    \/ (SessionRuns /\ \E s \in DOMAIN sockets, faults \in SessionFaults, q \in SeqBytes :
                            Faulty(s, faults, q))
    \/ (SessionRuns /\ \E s \in DOMAIN sockets : SocketError(s))
    \/ (SessionRuns /\ \E s \in DOMAIN sockets : PeerClose(s))
    \/ (SessionRuns /\ \E s \in DOMAIN sockets : SocketTimeout(s))
    \/ (SessionRuns /\ \E s \in DOMAIN sockets : CloseEvent(s))
    \/ (SessionRuns /\ \E d \in DOMAIN disc : GraceTimer(d))

SpecEnvelope == InitEnvelope /\ [][NextEnvelope]_vars

\* the order in which the decoder is said to look, and what it reports for each
CheckOrder == <<"start", "end", "checksum", "sequence", "serial", "control", "frametype">>
EnvelopeErrors ==
    [start     |-> "V5 frame contains invalid start or end values",
     end       |-> "V5 frame contains invalid start or end values",
     checksum  |-> "V5 frame contains invalid V5 checksum",
     sequence  |-> "V5 frame contains invalid sequence number",
     serial    |-> "V5 frame contains incorrect data logger serial number",
     control   |-> "V5 frame contains incorrect control code",
     frametype |-> "V5 frame contains invalid frametype"]
FirstFailing(faults) ==
    CheckOrder[CHOOSE i \in 1..Len(CheckOrder) :
                  /\ CheckOrder[i] \in faults
                  /\ \A j \in 1..(i - 1) : CheckOrder[j] \notin faults]
EnvelopeError(faults) == V5FrameError(EnvelopeErrors[FirstFailing(faults)])

\* C31: the decoder reports, for a response envelope with any set of faults among
\* start marker, end marker, checksum, echoed sequence, serial, control code and
\* frame type, the error of the first of them in that order (start and end share
\* one error), and decodes the envelope without faults.  In a session, a frame
\* that got past the data handler's start and sequence validation and fails a
\* decoder check ends the exchange in that step: the pending call rejects with
\* that error, the pending state and the call's timer are cleared, nothing is
\* written, and the counter and the last frame stay as they are.
C31_EnvelopeChecksInOrder ==
    /\ [][Called("faultyDecode")' =>
             ret'[1] = IF arg'.faults = {} THEN Ok(GoodPdu) ELSE EnvelopeError(arg'.faults)]_vars
    /\ [][\A s \in Listening, faults \in SessionFaults :
             (/\ PendingExchange
              /\ sequenceNumber # << >>
              /\ faults # {}
              /\ "start" \notin faults
              /\ Faulty(s, faults, sequenceNumber[1])) =>
                 /\ settled' = Outcome(dataResolve, EnvelopeError(faults))
                 /\ ~dataWanted'
                 /\ dataResolve' = 0
                 /\ dataReject' = 0
                 /\ calls' = Without(dataResolve)
                 /\ written' = << >>
                 /\ UNCHANGED <<sockets, socket, lastFrame, sequenceNumber, nCalls>>]_vars

\* the one call of a session has just been rejected with the checksum error
C31_Witness ==
    /\ nCalls = 1
    /\ settled = Outcome(1, V5FrameError("V5 frame contains invalid V5 checksum"))
    /\ calls = << >>
    /\ ~dataWanted
    /\ written = << >>

\* the frame cut down to its first n bytes
Truncated(frame, n) == SubArray(frame, 0, IF n < Len(frame) THEN n ELSE Len(frame))
DeclaredLength(frame) == frame[2] + 256 * frame[3]

\* C32: when the length field of an inbound frame disagrees with the frame's
\* length, the decoder's result is that of decoding the frame cut down to 13 + the
\* declared length if error correction is on, and that of decoding the frame as
\* received if it is off.
C32_TruncatesWhenCorrecting ==
    (Called("mismatchDecode") /\ Len(ret[1].frame) # 13 + DeclaredLength(ret[1].frame)) =>
        ret[1].decoded =
            IF arg.v5ErrorCorrection
            THEN v5FrameDecoder(Truncated(ret[1].frame, 13 + DeclaredLength(ret[1].frame)),
                                <<arg.seq>>)
            ELSE v5FrameDecoder(ret[1].frame, <<arg.seq>>)

\* the response envelope the decoder was given in a replyDecode call
ReplyFrame ==
    ServerFrame(V5_START, getResponseCode(REQUEST), arg.seq, v5Serial, 2, arg.pdu, 0, V5_END)

\* C33: for a response envelope that passes every check, the embedded PDU is bytes
\* 25 .. length-3 of the frame; a PDU of 5 bytes or more is returned as it is; a
\* shorter one is never returned: the decoder raises the envelope error that names
\* the exception when the PDU is not empty and its first byte is one of the codes
\* 1..6, and the malformed-frame error otherwise.
C33_ShortPduRaises ==
    Called("replyDecode") =>
        /\ SubArray(ReplyFrame, 25, Len(ReplyFrame) - 2) = arg.pdu
        /\ ret[1] = IF Len(arg.pdu) >= 5 THEN Ok(arg.pdu)
                    ELSE IF Len(arg.pdu) > 0 /\ arg.pdu[1] \in 1..6
                    THEN V5FrameError("V5 Modbus EXCEPTION: " \o ExceptionName(arg.pdu[1]))
                    ELSE V5FrameError("V5 frame does not contain a valid Modbus RTU frame")
        /\ ret[1].ok => Len(ret[1].val) >= 5

\* a PDU of one byte, the exception code 6, made the decoder name the exception
C33_Witness ==
    /\ Called("replyDecode")
    /\ arg.pdu = <<6>>
    /\ ret[1] = V5FrameError("V5 Modbus EXCEPTION: ServerDeviceBusy")

CrcMismatch == PlainError("Modbus response CRC verification failed")

\* the PDU ends with two zero bytes and is, without them, a frame with a valid CRC
DoubleCrc(response) ==
    /\ response[Len(response)] = 0
    /\ response[Len(response) - 1] = 0
    /\ verifyCrc(SubArray(response, 0, Len(response) - 2))

\* C34: the call's outcome is that of parsing the PDU, except when that parsing
\* fails with the CRC mismatch: then, if the PDU's last two bytes are zero and the
\* PDU without them carries a valid CRC, the outcome is that of parsing the PDU
\* without them, once; in every other case the CRC mismatch is surfaced.  No other
\* failure is corrected.
C34_DoubleCrcCorrection ==
    Called("crcRetry") =>
        LET first == parseResponseAdu(arg.response, arg.request)
        IN  /\ first # CrcMismatch => ret[1] = first
            /\ (first = CrcMismatch /\ DoubleCrc(arg.response)) =>
                   ret[1] = parseResponseAdu(SubArray(arg.response, 0, Len(arg.response) - 2),
                                             arg.request)
            /\ (first = CrcMismatch /\ ~DoubleCrc(arg.response)) => ret[1] = CrcMismatch

\* a PDU with a wrong CRC and two zero bytes at its end: the corrective attempt
\* was made and the CRC mismatch was surfaced
C34_Witness ==
    /\ Called("crcRetry")
    /\ arg.response = <<MbSlaveId, 3, 2, 0, 100, 255, 255, 0, 0>>
    /\ handleDoubleCrc(arg.response) = arg.response
    /\ ret[1] = CrcMismatch

RECURSIVE ByteSum(_, _, _)
\* the sum of the bytes at offsets from .. to of b
ByteSum(b, from, to) == IF from > to THEN 0 ELSE b[from + 1] + ByteSum(b, from + 1, to)

\* the four bytes of n, low byte first
LittleEndian32(n) == [i \in 1..4 |-> (n \div (256 ^ (i - 1))) % 256]

\* C35: the time response to an asynchronous frame is 23 bytes: A5, the length 10
\* low byte first, 10, the inbound control code - 0x30, the inbound sequence low
\* byte + 1 mod 256, the inbound sequence high byte, the serial low byte first, the
\* payload 00 01, the unix time low byte first and four zero bytes, the sum mod
\* 256 of the bytes at offsets 1..20, and 15.
C35_TimeResponseLayout ==
    Called("timeResponse") =>
        /\ Len(ret[1]) = 23
        /\ SubArray(ret[1], 0, 21) =
              <<165, 10, 0, 16, AsyncCodes[arg.kind] - 48, (arg.lo + 1) % 256, arg.hi>>
              \o LittleEndian32(Serial)
              \o <<0, 1>> \o LittleEndian32(arg.now) \o <<0, 0, 0, 0>>
        /\ ret[1][22] = ByteSum(ret[1], 1, 20) % 256
        /\ ret[1][23] = 21

\* the time response to a heartbeat whose sequence low byte is 255: it wraps to 0
C35_Witness ==
    /\ Called("timeResponse")
    /\ arg.kind = "heartbeat"
    /\ arg.lo = 255
    /\ arg.hi = 7
    /\ ret[1][5] = 23
    /\ ret[1][6] = 0
    /\ ret[1][7] = 7

\* the frame the encoder made in an encodeDecode call, and the length it declares
EncodedFrame == ret[1].frame

\* C36: the request frame encoded for a PDU of n bytes has 28 + n bytes, which is
\* 13 + the length it declares: A5, the length 15 + n low byte first, 10, 45, the
\* sequence number low byte first, the serial low byte first, the PDU at offset 26,
\* the sum mod 256 of the bytes at offsets 1 .. 25 + n in the last byte but one,
\* and 15 in the last.
C36_RequestFrameLayout ==
    Called("encodeDecode") =>
        LET n == Len(arg.pdu)
        IN  /\ Len(EncodedFrame) = 28 + n
            /\ Len(EncodedFrame) = 13 + DeclaredLength(EncodedFrame)
            /\ SubArray(EncodedFrame, 0, 11) =
                  <<165, (15 + n) % 256, (15 + n) \div 256, 16, 69, arg.seq % 256, arg.seq \div 256>>
                  \o LittleEndian32(Serial)
            /\ SubArray(EncodedFrame, 26, 26 + n) = arg.pdu
            /\ EncodedFrame[27 + n] = ByteSum(EncodedFrame, 1, 25 + n) % 256
            /\ EncodedFrame[28 + n] = 21

\* the frame around readHoldingRegisters(20, 4) with sequence number 254
C36_Witness ==
    /\ Called("encodeDecode")
    /\ arg.pdu = Request
    /\ arg.seq = 254
    /\ Len(EncodedFrame) = 36
    /\ SubArray(EncodedFrame, 26, 34) = Request

\* C37 as stated: the 15 bytes at offsets 11..25 of every encoded request frame
\* are zero.
C37_MetadataAllZero ==
    Called("encodeDecode") => \A k \in 11..25 : At(EncodedFrame, k) = 0

\* C37 as the code has it: the byte at offset 11, the frame type, is 02, and the
\* 14 bytes at offsets 12..25 (sensor type and the three time fields) are zero.
C37_MetadataFrameTypeThenZero ==
    Called("encodeDecode") =>
        /\ At(EncodedFrame, 11) = 2
        /\ \A k \in 12..25 : At(EncodedFrame, k) = 0

\* a request frame has been encoded around a PDU of bytes that are not zero
C37_Witness ==
    /\ Called("encodeDecode")
    /\ arg.pdu = <<255, 255, 255, 255>>
    /\ SubArray(EncodedFrame, 11, 26) = <<2, 0, 0, 0, 0, 0, 0, 0, 0, 0, 0, 0, 0, 0, 0>>

\* the device has just carried out the write of a masked write
WriteCarriedOut == maskedWrite # << >> /\ maskedWrite.pc = "writing" /\ maskedWrite'.pc = "returned"

\* C38: the masked write is not atomic.  Whatever the register holds when the
\* write exchange reaches the device, the device's register becomes the value
\* computed from the value that was read: bit by bit 0 where andMask is 0, else 1
\* where orMask is 1, else the bit read.  When another writer has changed the
\* register since the read, that change is overwritten (the witness shows it).
C38_WritesFromStaleValue ==
    [][WriteCarriedOut =>
          /\ \A k \in 0..15 :
                 BitOf(device'.value, k) =
                     IF BitOf(arg.andMask, k) = 0 THEN 0
                     ELSE IF BitOf(arg.orMask, k) = 1 THEN 1
                     ELSE BitOf(maskedWrite.currentValue[1], k)
          /\ device'.value < 65536
          /\ device'.replaced = <<device.value>>
          /\ ret' = <<Ok(device'.value)>>]_vars

\* a lost update: the masked write read 0 and was to set the low four bits; another
\* writer made the register FF00 before the write; the register now holds 000F, and
\* not the FF0F a masked write of what it replaced would have given
C38_Witness ==
    /\ maskedWrite # << >>
    /\ maskedWrite.pc = "returned"
    /\ arg.orMask = 15
    /\ arg.andMask = 65535
    /\ maskedWrite.currentValue = <<0>>
    /\ device = [value |-> 15, replaced |-> <<65280>>]
    /\ ret = <<Ok(15)>>


\* the frame a request builder returned
BuiltFrame == ret[1]

\* the CRC-16 of the first n bytes of the built frame, low byte first
CrcOfFirst(n) ==
    LET c == Crc16Reference(65535, SubArray(BuiltFrame, 0, n))
    IN  <<c % 256, c \div 256>>

\* the built frame starts with the unit id, the function code fc, the address as
\* a big-endian 16-bit number and the big-endian 16-bit number field
StartsWith(fc, addr, field) ==
    /\ BuiltFrame[1] = MbSlaveId
    /\ BuiltFrame[2] = fc
    /\ 256 * BuiltFrame[3] + BuiltFrame[4] = addr
    /\ 256 * BuiltFrame[5] + BuiltFrame[6] = field

\* C39: every request builder returns unit id, function code, big-endian 16-bit
\* address, big-endian 16-bit quantity or value, then the CRC; the write-multiple
\* builders put, before the CRC, a byte count (ceil(n/8) for n coils, 2n for n
\* registers) and the packed payload (registers as big-endian 16-bit words in
\* order), and their quantity field is n.
C39_BuilderLayout ==
    /\ Called("readRequest") =>
          /\ Len(BuiltFrame) = 8
          /\ StartsWith(arg.fc, arg.addr, arg.quantity)
          /\ SubArray(BuiltFrame, 6, 8) = CrcOfFirst(6)
    /\ Called("writeSingle") =>
          /\ Len(BuiltFrame) = 8
          /\ StartsWith(arg.fc, arg.addr, arg.value)
          /\ SubArray(BuiltFrame, 6, 8) = CrcOfFirst(6)
    /\ Called("writeMultipleCoils") =>
          LET n == Len(arg.values)
              byteCount == IF n % 8 = 0 THEN n \div 8 ELSE (n \div 8) + 1
          IN  /\ Len(BuiltFrame) = 7 + byteCount + 2
              /\ StartsWith(15, arg.addr, n)
              /\ BuiltFrame[7] = byteCount
              /\ \A i \in 0..(n - 1) :
                    BitOf(BuiltFrame[8 + (i \div 8)], i % 8) = arg.values[i + 1]
              /\ \A i \in n..(8 * byteCount - 1) :
                    BitOf(BuiltFrame[8 + (i \div 8)], i % 8) = 0
              /\ SubArray(BuiltFrame, 7 + byteCount, 9 + byteCount) = CrcOfFirst(7 + byteCount)
    /\ Called("writeMultipleRegisters") =>
          LET n == Len(arg.values)
          IN  /\ Len(BuiltFrame) = 7 + 2 * n + 2
              /\ StartsWith(16, arg.addr, n)
              /\ BuiltFrame[7] = 2 * n
              /\ \A i \in 1..n :
                    256 * BuiltFrame[6 + 2 * i] + BuiltFrame[7 + 2 * i] = arg.values[i]
              /\ SubArray(BuiltFrame, 7 + 2 * n, 9 + 2 * n) = CrcOfFirst(7 + 2 * n)

C39_Witness ==
    /\ Called("writeMultipleRegisters")
    /\ arg.addr = 256
    /\ arg.values = <<258, 65280>>
    /\ SubArray(BuiltFrame, 0, 11) = <<1, 16, 1, 0, 0, 2, 4, 1, 2, 255, 0>>


\* ------------------------------------------------------------------------
\* Discovery: discover() and its socket's events. A text is a sequence of
\* characters.
\* ------------------------------------------------------------------------

\* number of datagrams received within one discovery window
MaxReplies == 3

DISCOVERY_MESSAGES == <<"WIFIKIT-214028-READ", "HF-A11ASSISTHREAD">>

\* String.prototype.split(","): the pieces of decoded between its commas
split(decoded) ==
    LET commas == {i \in 1..Len(decoded) : decoded[i] = ","}
        cuts   == {0} \cup commas \cup {Len(decoded) + 1}
        cut(k) == CHOOSE c \in cuts : Cardinality({d \in cuts : d < c}) = k
    IN  [k \in 1..(Cardinality(commas) + 1) |->
            SubSeq(decoded, cut(k - 1) + 1, cut(k) - 1)]

DigitValue ==
    [c \in {"0", "1", "2", "3", "4", "5", "6", "7", "8", "9"} |->
        CASE c = "0" -> 0 [] c = "1" -> 1 [] c = "2" -> 2 [] c = "3" -> 3 [] c = "4" -> 4
          [] c = "5" -> 5 [] c = "6" -> 6 [] c = "7" -> 7 [] c = "8" -> 8 [] c = "9" -> 9]

RECURSIVE DecimalFrom(_, _, _)
\* the number the digits of text from position i on stand for, after the digits
\* that gave acc; it ends at the first character that is not a digit
DecimalFrom(acc, text, i) ==
    IF i > Len(text) \/ text[i] \notin DOMAIN DigitValue THEN acc
    ELSE DecimalFrom(10 * acc + DigitValue[text[i]], text, i + 1)

\* parseInt(text, 10): leading white space is skipped, a sign is read, then the
\* digits up to the first character that is not one; << >> stands for NaN, <<n>>
\* for the number n
parseInt(text) ==
    LET spaces == {i \in 1..Len(text) : \A j \in 1..i : text[j] = " "}
        start  == Cardinality(spaces) + 1
        signed == start <= Len(text) /\ text[start] \in {"+", "-"}
        first  == IF signed THEN start + 1 ELSE start
    IN  IF first > Len(text) \/ text[first] \notin DOMAIN DigitValue THEN << >>
        ELSE IF signed /\ text[start] = "-" THEN <<0 - DecimalFrom(0, text, first)>>
        ELSE <<DecimalFrom(0, text, first)>>

\* the fields of the datagrams a discovery socket receives: replies of loggers
\* (ip, mac, serial) and datagrams of other shapes
ReplyFields ==
    {<< <<"a">>, <<"m">>, t >> :
        t \in {<<"1">>, <<"2">>, <<"0", "1">>, <<"1", "x">>, <<"x">>, << >>, <<"0">>,
               <<"-", "1">>, <<" ", "2">>}}
    \cup {<< <<"b">>, <<"m">>, <<"1">> >>, << <<"b">>, <<"m">>, <<"2">> >>}
    \cup {<< <<"a">>, <<"1">> >>, << <<"a">>, <<"m">>, <<"1">>, <<"1">> >>, << << >> >>}

\* the fields f joined by commas
Joined(f) ==
    IF Len(f) = 1 THEN f[1]
    ELSE IF Len(f) = 2 THEN f[1] \o <<",">> \o f[2]
    ELSE IF Len(f) = 3 THEN f[1] \o <<",">> \o f[2] \o <<",">> \o f[3]
    ELSE f[1] \o <<",">> \o f[2] \o <<",">> \o f[3] \o <<",">> \o f[4]

Replies == {Joined(f) : f \in ReplyFields}

\* discover(): the promise is pending, the socket is created and not yet bound,
\* the timer is armed
Discover ==
    /\ discovery = << >>
    /\ discovery' = [status   |-> "pending",
                     bound    |-> FALSE,
                     sent     |-> << >>,
                     results  |-> << >>,
                     seen     |-> {},
                     received |-> << >>,
                     outcome  |-> << >>]
    /\ UNCHANGED <<session, arg, ret, maskedWrite, device>>

\* the socket is open: neither the timer nor the error handler has closed it
SocketOpen == discovery # << >> /\ discovery.status = "pending"

\* socket.bind callback: every discovery message is broadcast
OnBound ==
    /\ SocketOpen
    /\ ~discovery.bound
    /\ discovery' = [discovery EXCEPT !.bound = TRUE, !.sent = DISCOVERY_MESSAGES]
    /\ UNCHANGED <<session, arg, ret, maskedWrite, device>>

\* a message handler that records every reply with a positive serial
OnMessage_NoSeenCheck(msg) ==
    /\ SocketOpen
    /\ discovery.bound
    /\ Len(discovery.received) < MaxReplies
    /\ LET parts == split(msg)
           serial == IF Len(parts) = 3 THEN parseInt(parts[3]) ELSE << >>
       IN  IF Len(parts) = 3 /\ serial # << >> /\ serial[1] > 0
           THEN discovery' =
                   [discovery EXCEPT
                      !.received = Append(@, msg),
                      !.seen     = @ \cup {serial[1]},
                      !.results  = Append(@, [ip |-> parts[1], mac |-> parts[2],
                                              serial |-> serial[1]])]
           ELSE discovery' = [discovery EXCEPT !.received = Append(@, msg)]
    /\ UNCHANGED <<session, arg, ret, maskedWrite, device>>

\* socket.on("message"): the datagram msg arrives on the bound socket
OnMessage(msg) ==
    /\ SocketOpen
    /\ discovery.bound
    /\ Len(discovery.received) < MaxReplies
    /\ LET parts == split(msg)
           serial == IF Len(parts) = 3 THEN parseInt(parts[3]) ELSE << >>
       IN  IF /\ Len(parts) = 3
              /\ serial # << >>
              /\ serial[1] > 0
              /\ serial[1] \notin discovery.seen
           THEN discovery' =
                   [discovery EXCEPT
                      !.received = Append(@, msg),
                      !.seen     = @ \cup {serial[1]},
                      !.results  = Append(@, [ip |-> parts[1], mac |-> parts[2],
                                              serial |-> serial[1]])]
           ELSE discovery' = [discovery EXCEPT !.received = Append(@, msg)]
    /\ UNCHANGED <<session, arg, ret, maskedWrite, device>>

\* the setTimeout callback: socket.close(), resolve(results)
OnTimer ==
    /\ SocketOpen
    /\ discovery' = [discovery EXCEPT !.status  = "resolved",
                                      !.outcome = <<discovery.results>>]
    /\ UNCHANGED <<session, arg, ret, maskedWrite, device>>

\* socket.on("error"): clearTimeout(timer), socket.close(), reject(err)
OnError ==
    /\ SocketOpen
    /\ discovery' = [discovery EXCEPT !.status  = "rejected",
                                      !.outcome = <<PlainError("socket error")>>]
    /\ UNCHANGED <<session, arg, ret, maskedWrite, device>>

\* no session call is made, no discover() call yet
InitDiscover == Init

NextDiscover ==
    \/ Discover
    \/ OnBound
    \/ \E msg \in Replies : OnMessage(msg)
    \/ OnTimer
    \/ OnError

SpecDiscover == InitDiscover /\ [][NextDiscover]_vars

\* what a datagram is for the discovery: << >> when it is not a reply, else the
\* entry it stands for. A datagram is a reply when it has three fields and its
\* third reads as a positive number.
SerialRead ==
    [t \in {f[3] : f \in {g \in ReplyFields : Len(g) = 3}} |->
        CASE t = <<"1">>      -> <<1>>
          [] t = <<"2">>      -> <<2>>
          [] t = <<"0", "1">> -> <<1>>
          [] t = <<"1", "x">> -> <<1>>
          [] t = <<" ", "2">> -> <<2>>
          [] OTHER            -> << >>]

EntryOf(msg) ==
    LET f == CHOOSE g \in ReplyFields : Joined(g) = msg
    IN  IF Len(f) = 3 /\ SerialRead[f[3]] # << >>
        THEN <<[ip |-> f[1], mac |-> f[2], serial |-> SerialRead[f[3]][1]]>>
        ELSE << >>

\* the positions in the received datagrams of the first reply of each serial
FirstReplies ==
    LET log == discovery.received
    IN  {i \in 1..Len(log) :
            /\ EntryOf(log[i]) # << >>
            /\ \A j \in 1..(i - 1) :
                  EntryOf(log[j]) = << >> \/ EntryOf(log[j])[1].serial # EntryOf(log[i])[1].serial}

\* C40: within one discovery window, after any sequence of received datagrams,
\* the results hold at most one entry per serial, the one of the first reply with
\* that serial, and only datagrams with exactly three comma-separated fields and
\* a positive numeric serial are recorded; when the timer fires, discover
\* resolves with that list.
C40_OneEntryPerSerial ==
    discovery # << >> =>
        LET results == discovery.results
            log     == discovery.received
        IN  /\ \A i, j \in 1..Len(results) : results[i].serial = results[j].serial => i = j
            /\ Len(results) = Cardinality(FirstReplies)
            /\ \A k \in 1..Len(results) :
                  \E i \in FirstReplies :
                     /\ Cardinality({j \in FirstReplies : j < i}) = k - 1
                     /\ <<results[k]>> = EntryOf(log[i])
            /\ discovery.status = "resolved" => discovery.outcome = <<results>>
            /\ discovery.status = "pending" => discovery.outcome = << >>

C40_Witness ==
    /\ discovery # << >>
    /\ discovery.status = "resolved"
    /\ discovery.received = <<Joined(<< <<"a">>, <<"m">>, <<"x">> >>),
                              Joined(<< <<"b">>, <<"m">>, <<"1">> >>),
                              Joined(<< <<"a">>, <<"m">>, <<"0", "1">> >>)>>
    /\ discovery.outcome = <<discovery.results>>
    /\ discovery.results = <<[ip |-> <<"b">>, mac |-> <<"m">>, serial |-> 1]>>

====
